---------------------------- MODULE Spec2Model ----------------------------
(***************************************************************************)
(* Toggl -> GitLab time synchronisation (sync-gitlab-toggl).               *)
(*                                                                         *)
(* The model covers TogglClient (parsing, rounding, filtering),            *)
(* SyncService (grouping, issue reconciliation, deduplication, counters)   *)
(* and the GitLab tracker the service talks to (issues, time records and   *)
(* notes).  Python strings are sequences of one-character strings, so that *)
(* formatting, truncation and regular-expression scans are computed rather *)
(* than assumed.                                                           *)
(***************************************************************************)
EXTENDS Integers, Sequences, FiniteSets, TLC

\* ---- String literals of the source, as sequences of characters ----
\* STR_kazoo: "kazoo#"
STR_kazoo == <<"k", "a", "z", "o", "o", "#">>
\* STR_issue: "issue"
STR_issue == <<"i", "s", "s", "u", "e">>
\* STR_Toggl: "Toggl: "
STR_Toggl == <<"T", "o", "g", "g", "l", ":", " ">>
\* STR_TogglID: "[TogglID:"
STR_TogglID == <<"[", "T", "o", "g", "g", "l", "I", "D", ":">>
\* STR_TimeLogged: "(clock emoji) Time logged:"
STR_TimeLogged == <<"CLOCK", " ", "T", "i", "m", "e", " ", "l", "o", "g", "g", "e",
    "d", ":">>
\* STR_AutoCreated: "Auto-created from Toggl time tracking\n\nOriginal ticket ID: "
STR_AutoCreated == <<"A", "u", "t", "o", "-", "c", "r", "e", "a", "t", "e", "d", " ",
    "f", "r", "o", "m", " ", "T", "o", "g", "g", "l", " ", "t", "i", "m", "e", " ",
    "t", "r", "a", "c", "k", "i", "n", "g", "\n", "\n", "O", "r", "i", "g", "i", "n",
    "a", "l", " ", "t", "i", "c", "k", "e", "t", " ", "I", "D", ":", " ">>
\* STR_TotalLogged: "\nTotal logged time: "
STR_TotalLogged == <<"\n", "T", "o", "t", "a", "l", " ", "l", "o", "g", "g", "e", "d",
    " ", "t", "i", "m", "e", ":", " ">>
\* STR_SyncSummary: "(chart emoji) Toggl Sync Summary: "
STR_SyncSummary == <<"CHART", " ", "T", "o", "g", "g", "l", " ", "S", "y", "n", "c",
    " ", "S", "u", "m", "m", "a", "r", "y", ":", " ">>
\* STR_entries_totaling: " entries totaling "
STR_entries_totaling == <<" ", "e", "n", "t", "r", "i", "e", "s", " ", "t", "o", "t",
    "a", "l", "i", "n", "g", " ">>
\* STR_logged_from: " logged from time tracking tool."
STR_logged_from == <<" ", "l", "o", "g", "g", "e", "d", " ", "f", "r", "o", "m", " ",
    "t", "i", "m", "e", " ", "t", "r", "a", "c", "k", "i", "n", "g", " ", "t", "o",
    "o", "l", ".">>
\* TERM_meeting: "meeting"
TERM_meeting == <<"m", "e", "e", "t", "i", "n", "g">>

\* ---- Descriptions, tags and titles of the checked inputs ----
\* DESC_42_fix: "#42: fix"
DESC_42_fix == <<"#", "4", "2", ":", " ", "f", "i", "x">>
\* DESC_meeting: "meeting"
DESC_meeting == <<"m", "e", "e", "t", "i", "n", "g">>
\* DESC_42_test: "#42: test"
DESC_42_test == <<"#", "4", "2", ":", " ", "t", "e", "s", "t">>
\* DESC_docs: "docs v2"
DESC_docs == <<"d", "o", "c", "s", " ", "v", "2">>
\* DESC_42_fix_nocolon: "#42 fix"
DESC_42_fix_nocolon == <<"#", "4", "2", " ", "f", "i", "x">>
\* DESC_7_board: "#7: board"
DESC_7_board == <<"#", "7", ":", " ", "b", "o", "a", "r", "d">>
\* TAG_dev: "dev"
TAG_dev == <<"d", "e", "v">>
\* TITLE_42: "Fix login"
TITLE_42 == <<"F", "i", "x", " ", "l", "o", "g", "i", "n">>
\* DESC_42_marker: "#42: see [TogglID:9]"
DESC_42_marker == <<"#", "4", "2", ":", " ", "s", "e", "e", " ", "[", "T", "o", "g",
    "g", "l", "I", "D", ":", "9", "]">>
\* DESC_ui: "ui"
DESC_ui == <<"u", "i">>

\* ------------------------------ Characters ------------------------------
UpperCase == <<"A", "B", "C", "D", "E", "F", "G", "H", "I", "J", "K", "L", "M",
    "N", "O", "P", "Q", "R", "S", "T", "U", "V", "W", "X", "Y", "Z">>
LowerCase == <<"a", "b", "c", "d", "e", "f", "g", "h", "i", "j", "k", "l", "m",
    "n", "o", "p", "q", "r", "s", "t", "u", "v", "w", "x", "y", "z">>
DigitChars == <<"0", "1", "2", "3", "4", "5", "6", "7", "8", "9">>

Range(s) == {s[i] : i \in 1..Len(s)}

\* \d
IsDigit == Range(DigitChars)
\* [A-Z] under re.IGNORECASE
IsAlpha == Range(UpperCase) \cup Range(LowerCase)
\* \w
IsWord == IsAlpha \cup IsDigit \cup {"_"}
\* \s, and the characters str.strip() removes
IsSpace == {" ", "\t", "\n"}

\* str.lower(), one character
LowerChar(c) ==
    IF c \in Range(UpperCase)
    THEN LowerCase[CHOOSE i \in 1..26 : UpperCase[i] = c]
    ELSE c

\* str.lower()
Lower(s) == [i \in 1..Len(s) |-> LowerChar(s[i])]

\* s[i:] of Python, with i a 1-based position
From(s, i) == SubSeq(s, i, Len(s))

\* needle in haystack
Contains(haystack, needle) ==
    \E i \in 1..(Len(haystack) - Len(needle) + 1) :
        SubSeq(haystack, i, i + Len(needle) - 1) = needle

\* str.strip()
RECURSIVE LStrip(_)
LStrip(s) == IF s # <<>> /\ Head(s) \in IsSpace THEN LStrip(Tail(s)) ELSE s
RECURSIVE RStrip(_)
RStrip(s) ==
    IF s # <<>> /\ s[Len(s)] \in IsSpace THEN RStrip(SubSeq(s, 1, Len(s) - 1)) ELSE s
Strip(s) == RStrip(LStrip(s))

\* str.isdigit()
IsDigitStr(s) == s # <<>> /\ \A i \in 1..Len(s) : s[i] \in IsDigit

\* int(s) for a string of decimal digits
DigitValue(c) == (CHOOSE i \in 1..10 : DigitChars[i] = c) - 1
RECURSIVE StrToInt(_)
StrToInt(s) ==
    IF s = <<>> THEN 0
    ELSE 10 * StrToInt(SubSeq(s, 1, Len(s) - 1)) + DigitValue(s[Len(s)])

\* str(n) for n >= 0
RECURSIVE IntToStr(_)
IntToStr(n) ==
    IF n < 10 THEN <<DigitChars[n + 1]>>
    ELSE IntToStr(n \div 10) \o <<DigitChars[(n % 10) + 1]>>

\* sep.join(parts)
RECURSIVE Join(_, _)
Join(sep, parts) ==
    IF parts = <<>> THEN <<>>
    ELSE IF Len(parts) = 1 THEN parts[1]
    ELSE parts[1] \o sep \o Join(sep, Tail(parts))

\* ------------------- Regular expressions of the source ------------------
\* A greedy run of the characters of a class from position i: the first
\* position >= i of s whose character is not in the class.
RunEnd(s, i, class) ==
    IF i > Len(s) THEN i
    ELSE CHOOSE j \in i..(Len(s) + 1) :
             /\ j = Len(s) + 1 \/ s[j] \notin class
             /\ \A k \in i..(j - 1) : s[k] \in class

\* (.*) from position i: everything up to the next newline.
DotStar(s, i) == SubSeq(s, i, RunEnd(s, i, Range(s) \ {"\n"}) - 1)

\* A literal at position i, compared case-insensitively.
LitAt(s, i, lit) ==
    /\ i + Len(lit) - 1 <= Len(s)
    /\ Lower(SubSeq(s, i, i + Len(lit) - 1)) = Lower(lit)

NoMatch == [matched |-> FALSE, group1 |-> <<>>, group2 |-> <<>>]
Matched(g1, g2) == [matched |-> TRUE, group1 |-> g1, group2 |-> g2]

\* ":?\s*(.*)" from position i, with group 1 already captured
OptColonTail(s, i, g1) ==
    LET j == IF i <= Len(s) /\ s[i] = ":" THEN i + 1 ELSE i
    IN Matched(g1, DotStar(s, RunEnd(s, j, IsSpace)))

\* "\s*(.*)" from position i
SpaceTail(s, i, g1) == Matched(g1, DotStar(s, RunEnd(s, i, IsSpace)))

\* "([A-Z]+-\d+)" at position i with at least minAlpha letters:
\* the position after the tag, or 0 when it does not match
TagEnd(s, i, minAlpha) ==
    LET a == RunEnd(s, i, IsAlpha)
        d == RunEnd(s, a + 1, IsDigit)
    IN IF a - i >= minAlpha /\ a <= Len(s) /\ s[a] = "-" /\ d > a + 1
       THEN d ELSE 0

\* r'kazoo#(\d+)\s*(.*)'
Pattern1(s) ==
    LET e == RunEnd(s, 7, IsDigit)
    IN IF LitAt(s, 1, STR_kazoo) /\ e > 7
       THEN SpaceTail(s, e, SubSeq(s, 7, e - 1)) ELSE NoMatch

\* r'#(\d+):?\s*(.*)'
Pattern2(s) ==
    LET e == RunEnd(s, 2, IsDigit)
    IN IF s # <<>> /\ s[1] = "#" /\ e > 2
       THEN OptColonTail(s, e, SubSeq(s, 2, e - 1)) ELSE NoMatch

\* r'([A-Z]+-\d+):?\s*(.*)'
Pattern3(s) ==
    LET e == TagEnd(s, 1, 1)
    IN IF e > 0 THEN OptColonTail(s, e, SubSeq(s, 1, e - 1)) ELSE NoMatch

\* r'Issue\s+#(\d+):?\s*(.*)'
Pattern4(s) ==
    LET h == RunEnd(s, 6, IsSpace)
        e == RunEnd(s, h + 1, IsDigit)
    IN IF LitAt(s, 1, STR_issue) /\ h > 6 /\ h <= Len(s) /\ s[h] = "#" /\ e > h + 1
       THEN OptColonTail(s, e, SubSeq(s, h + 1, e - 1)) ELSE NoMatch

\* r'\[([A-Z]+-\d+)\]\s*(.*)' and r'\(([A-Z]+-\d+)\)\s*(.*)'
Bracketed(s, open, close) ==
    LET e == TagEnd(s, 2, 1)
    IN IF s # <<>> /\ s[1] = open /\ e > 0 /\ e <= Len(s) /\ s[e] = close
       THEN SpaceTail(s, e + 1, SubSeq(s, 2, e - 1)) ELSE NoMatch
Pattern5(s) == Bracketed(s, "[", "]")
Pattern6(s) == Bracketed(s, "(", ")")

\* r'(\w+-\d+)\s*[-:]\s*(.*)'
Pattern7(s) ==
    LET w == RunEnd(s, 1, IsWord)
        d == RunEnd(s, w + 1, IsDigit)
        p == RunEnd(s, d, IsSpace)
    IN IF w > 1 /\ w <= Len(s) /\ s[w] = "-" /\ d > w + 1
          /\ p <= Len(s) /\ s[p] \in {"-", ":"}
       THEN SpaceTail(s, p + 1, SubSeq(s, 1, d - 1)) ELSE NoMatch

\* r'([A-Z]{2,}-\d+)\b\s*(.*)'
Pattern8(s) ==
    LET e == TagEnd(s, 1, 2)
    IN IF e > 0 /\ (e > Len(s) \/ s[e] \notin IsWord)
       THEN SpaceTail(s, e, SubSeq(s, 1, e - 1)) ELSE NoMatch

\* r'(\d+):\s*(.*)'
Pattern9(s) ==
    LET e == RunEnd(s, 1, IsDigit)
    IN IF e > 1 /\ e <= Len(s) /\ s[e] = ":"
       THEN SpaceTail(s, e + 1, SubSeq(s, 1, e - 1)) ELSE NoMatch

\* patterns, in the order of the list
patterns(s) == <<Pattern1(s), Pattern2(s), Pattern3(s), Pattern4(s), Pattern5(s),
    Pattern6(s), Pattern7(s), Pattern8(s), Pattern9(s)>>

\* Python's None
None == <<"None">>

\* The loop over the patterns, run to its end: the last match, in list order
RECURSIVE LastMatch(_, _)
LastMatch(ms, i) ==
    IF i > Len(ms) THEN NoMatch
    ELSE IF LastMatch(ms, i + 1).matched THEN LastMatch(ms, i + 1)
    ELSE ms[i]

\* The loop over the patterns: the first match, in list order
RECURSIVE FirstMatch(_, _)
FirstMatch(ms, i) ==
    IF i > Len(ms) THEN NoMatch
    ELSE IF ms[i].matched THEN ms[i]
    ELSE FirstMatch(ms, i + 1)

\* a or b
Or(a, b) == IF a # <<>> THEN a ELSE b

\* The dict for the first match m without the fallbacks to the description
ticket_info_without_fallback(m, description) ==
    IF m.matched
    THEN [ticket_id |-> m.group1, ticket_name |-> Strip(m.group2)]
    ELSE [ticket_id |-> None, ticket_name |-> description]

\* The dict extract_ticket_info returns for the first match m, if any
ticket_info_of(m, description) ==
    IF m.matched
    THEN [ticket_id |-> m.group1,
          ticket_name |->
              Or(IF m.group2 # <<>> THEN Strip(m.group2) ELSE description, description)]
    ELSE [ticket_id |-> None, ticket_name |-> description]

\* TogglClient.extract_ticket_info
extract_ticket_info(description) ==
    IF description = <<>> THEN [ticket_id |-> None, ticket_name |-> None]
    ELSE ticket_info_of(FirstMatch(patterns(Strip(description)), 1), description)

\* round_time without its last two lines: a positive duration may round to zero
round_time_unclamped(duration_seconds, round_to_minutes) ==
    IF round_to_minutes <= 0 THEN duration_seconds
    ELSE
        LET round_to_seconds == round_to_minutes * 60
            q == duration_seconds \div round_to_seconds
            r == duration_seconds % round_to_seconds
        IN round_to_seconds *
               (IF 2 * r < round_to_seconds THEN q
                ELSE IF 2 * r > round_to_seconds THEN q + 1
                ELSE IF q % 2 = 0 THEN q ELSE q + 1)

\* round_time that returns the duration as it is
round_time_identity(duration_seconds, round_to_minutes) == duration_seconds

\* TogglClient.round_time; round() is Python's round-half-to-even
round_time(duration_seconds, round_to_minutes) ==
    IF round_to_minutes <= 0 THEN duration_seconds
    ELSE
        LET round_to_seconds == round_to_minutes * 60
            q == duration_seconds \div round_to_seconds
            r == duration_seconds % round_to_seconds
            n == IF 2 * r < round_to_seconds THEN q
                 ELSE IF 2 * r > round_to_seconds THEN q + 1
                 ELSE IF q % 2 = 0 THEN q ELSE q + 1
            rounded == n * round_to_seconds
        IN IF rounded = 0 /\ duration_seconds > 0 THEN round_to_seconds
           ELSE rounded

\* ------------------------------ Configuration ---------------------------
\* Config.MIN_DESCRIPTION_LENGTH (default)
MIN_DESCRIPTION_LENGTH == 5
\* Config.SKIP_GENERIC_TERMS (default)
\* ['meeting', 'break', 'lunch', 'admin', 'misc', 'other', 'call']
SKIP_GENERIC_TERMS ==
    <<TERM_meeting, <<"b", "r", "e", "a", "k">>, <<"l", "u", "n", "c", "h">>,
      <<"a", "d", "m", "i", "n">>, <<"m", "i", "s", "c">>,
      <<"o", "t", "h", "e", "r">>, <<"c", "a", "l", "l">>>>
\* Config.ESTIMATE_MULTIPLIER (default 1.5), as a fraction
ESTIMATE_MULTIPLIER_NUM == 3
ESTIMATE_MULTIPLIER_DEN == 2
\* int(x * Config.ESTIMATE_MULTIPLIER) for an integer x >= 0
TimesMultiplier(x) == (x * ESTIMATE_MULTIPLIER_NUM) \div ESTIMATE_MULTIPLIER_DEN

\* Python truthiness of an optional string
Truthy(s) == s # None /\ s # <<>>

\* --------------------------------- Dates --------------------------------
\* Days from 1970-01-01 to the civil date y-m-d (proleptic Gregorian).
DaysFromCivil(y, m, d) ==
    LET yy == IF m <= 2 THEN y - 1 ELSE y
        era == yy \div 400
        yoe == yy - era * 400
        mp == IF m > 2 THEN m - 3 ELSE m + 9
        doy == (153 * mp + 2) \div 5 + d - 1
        doe == yoe * 365 + yoe \div 4 - yoe \div 100 + doy
    IN era * 146097 + doe - 719468

\* datetime.weekday(): Monday = 0 ... Sunday = 6
weekday(date) == (DaysFromCivil(date.y, date.m, date.d) + 3) % 7

\* zero-padded decimal of width w
RECURSIVE Pad(_, _)
Pad(s, w) == IF Len(s) >= w THEN s ELSE Pad(<<"0">> \o s, w)

\* strftime('%Y-%m-%d')
strftime(date) ==
    Pad(IntToStr(date.y), 4) \o <<"-">> \o Pad(IntToStr(date.m), 2) \o <<"-">>
        \o Pad(IntToStr(date.d), 2)

\* ------------------------------ TogglClient -----------------------------
\* TogglClient.get_time_entries: the filter applied to the entries of the
\* response (no project and no user filter configured)
get_time_entries(entries, only_billable, minimum_duration) ==
    SelectSeq(entries, LAMBDA entry :
        /\ ~(entry.duration <= 0)
        /\ ~(entry.duration < minimum_duration)
        /\ ~(only_billable /\ ~entry.billable))

\* filter_by_weekdays that drops an entry whose start cannot be parsed
filter_by_weekdays_fail_closed(entries, exclude_weekends) ==
    IF ~exclude_weekends THEN entries
    ELSE SelectSeq(entries, LAMBDA entry :
             entry.start.valid /\ weekday(entry.start) < 5)

\* TogglClient.filter_by_weekdays
filter_by_weekdays(entries, exclude_weekends) ==
    IF ~exclude_weekends THEN entries
    ELSE SelectSeq(entries, LAMBDA entry :
             IF entry.start.valid THEN weekday(entry.start) < 5 ELSE TRUE)

\* processed_entry of process_time_entries
processed_entry_of(entry, ticket_info, rounded_duration) ==
    [id |-> entry.id,
     description |-> entry.description,
     start |-> entry.start,
     duration |-> rounded_duration,
     original_duration |-> entry.duration,
     billable |-> entry.billable,
     ticket_id |-> ticket_info.ticket_id,
     ticket_name |-> ticket_info.ticket_name,
     tags |-> entry.tags]

\* One iteration of the loop of process_time_entries on an entry it keeps
processed_entry(entry, round_to_minutes) ==
    processed_entry_of(entry, extract_ticket_info(entry.description),
                       round_time(entry.duration, round_to_minutes))

\* TogglClient.process_time_entries
process_time_entries(time_entries, minimum_duration, round_to_minutes, exclude_weekends) ==
    LET kept == SelectSeq(
                    filter_by_weekdays(time_entries, exclude_weekends),
                    LAMBDA entry : ~(entry.duration <= 0)
                                   /\ ~(entry.duration < minimum_duration))
    IN [i \in 1..Len(kept) |-> processed_entry(kept[i], round_to_minutes)]

\* ------------------------------ Formatting ------------------------------
\* SyncService._format_duration
_format_duration(seconds) ==
    LET hours == seconds \div 3600
        minutes == (seconds % 3600) \div 60
    IN IF hours > 0
       THEN IF minutes > 0
            THEN IntToStr(hours) \o <<"h", " ">> \o IntToStr(minutes) \o <<"m">>
            ELSE IntToStr(hours) \o <<"h">>
       ELSE IntToStr(minutes) \o <<"m">>

\* GitLabClient._seconds_to_gitlab_time
_seconds_to_gitlab_time(seconds) ==
    IF seconds <= 0 THEN <<"1", "m">>
    ELSE
        LET hours == seconds \div 3600
            minutes == (seconds % 3600) \div 60
            time_parts ==
                (IF hours > 0 THEN <<IntToStr(hours) \o <<"h">>>> ELSE <<>>)
                \o (IF minutes > 0 THEN <<IntToStr(minutes) \o <<"m">>>> ELSE <<>>)
        IN IF time_parts # <<>> THEN Join(<<" ">>, time_parts) ELSE <<"1", "m">>

\* The seconds the tracker records for a duration such as "1h 30m"
GitlabTimeSeconds(text) ==
    LET e1 == RunEnd(text, 1, IsDigit)
        n1 == StrToInt(SubSeq(text, 1, e1 - 1))
    IN IF text[e1] = "m" THEN 60 * n1
       ELSE IF e1 = Len(text) THEN 3600 * n1
       ELSE 3600 * n1 + 60 * StrToInt(SubSeq(text, e1 + 2, Len(text) - 1))

\* re.search(r'\[TogglID:(\d+)\]', text): group 1 of the first match, or None
MarkerAt(text, i) ==
    LET d == i + Len(STR_TogglID)
        e == RunEnd(text, d, IsDigit)
    IN /\ i + Len(STR_TogglID) - 1 <= Len(text)
       /\ SubSeq(text, i, d - 1) = STR_TogglID
       /\ e > d /\ e <= Len(text) /\ text[e] = "]"
MarkerSearch(text) ==
    LET at == {i \in 1..Len(text) : MarkerAt(text, i)}
    IN IF at = {} THEN None
       ELSE LET i == CHOOSE k \in at : \A j \in at : k <= j
                d == i + Len(STR_TogglID)
            IN SubSeq(text, d, RunEnd(text, d, IsDigit) - 1)

\* The summary line of one time log, built in _sync_entries_to_issue
entry_description(entry, prevent_duplicates) ==
    Join(<<" ">>,
        <<STR_Toggl \o entry.description>>
        \o (IF entry.tags # <<>>
            \* "[Tags: " + ", ".join(tags) + "]"
            THEN <<<<"[", "T", "a", "g", "s", ":", " ">>
                   \o Join(<<",", " ">>, entry.tags) \o <<"]">>>>
            ELSE <<>>)
        \o (IF entry.billable
            THEN <<<<"[", "B", "i", "l", "l", "a", "b", "l", "e", "]">>>> ELSE <<>>)
        \o (IF entry.original_duration # entry.duration
            \* "[Rounded: " + original + " (arrow) " + rounded + "]"
            THEN <<<<"[", "R", "o", "u", "n", "d", "e", "d", ":", " ">>
                   \o _format_duration(entry.original_duration)
                   \o <<" ", "ARROW", " ">> \o _format_duration(entry.duration)
                   \o <<"]">>>>
            ELSE <<>>)
        \o (IF prevent_duplicates
            THEN <<STR_TogglID \o IntToStr(entry.id) \o <<"]">>>> ELSE <<>>))

\* data['summary'] of add_time_spent
SUMMARY_LIMIT == 255
time_summary(description) ==
    SubSeq(description, 1, IF Len(description) < SUMMARY_LIMIT THEN Len(description)
                           ELSE SUMMARY_LIMIT)

\* note_text of add_time_spent
tracking_note_text(duration_seconds, spent_at, description) ==
    STR_TimeLogged \o <<" ">> \o _seconds_to_gitlab_time(duration_seconds)
        \o <<" ", "o", "n", " ">> \o strftime(spent_at) \o <<" ", "-", " ">>
        \o description

\* summary_note of _sync_entries_to_issue
summary_note_text(n_entries, total_logged) ==
    STR_SyncSummary \o IntToStr(n_entries) \o STR_entries_totaling
        \o _format_duration(total_logged) \o STR_logged_from

\* description= of the create_issue call in _sync_ticket_entries
created_issue_description(ticket_id, total_duration) ==
    STR_AutoCreated \o (IF Truthy(ticket_id) THEN ticket_id ELSE <<"N", "/", "A">>)
        \o STR_TotalLogged \o _format_duration(total_duration)

\* ------------------------------ SyncService -----------------------------
\* _should_sync_entry with the duration test off by one
_should_sync_entry_off_by_one(entry, minimum_duration, sync_only_billable) ==
    IF entry.duration < minimum_duration - 1 THEN FALSE
    ELSE IF sync_only_billable /\ ~entry.billable THEN FALSE
    ELSE TRUE

\* SyncService._should_sync_entry
_should_sync_entry(entry, minimum_duration, sync_only_billable) ==
    IF entry.duration < minimum_duration THEN FALSE
    ELSE IF sync_only_billable /\ ~entry.billable THEN FALSE
    ELSE TRUE

\* sum(entry['duration'] for entry in entries)
RECURSIVE SumDuration(_)
SumDuration(entries) ==
    IF entries = <<>> THEN 0 ELSE Head(entries).duration + SumDuration(Tail(entries))

\* SyncService._group_entries_by_ticket: the dict as a sequence of
\* [key, entries] in insertion order
RECURSIVE GroupInto(_, _)
GroupInto(grouped, entries) ==
    IF entries = <<>> THEN grouped
    ELSE
        LET entry == Head(entries)
            ticket_key == <<entry.ticket_id, entry.ticket_name>>
            at == {i \in 1..Len(grouped) : grouped[i].key = ticket_key}
        IN IF at = {}
           THEN GroupInto(Append(grouped, [key |-> ticket_key, entries |-> <<entry>>]),
                          Tail(entries))
           ELSE LET i == CHOOSE k \in at : TRUE
                IN GroupInto([grouped EXCEPT ![i].entries = Append(@, entry)],
                             Tail(entries))
\* Grouping with the ticket id alone as the key
RECURSIVE GroupIntoById(_, _)
GroupIntoById(grouped, entries) ==
    IF entries = <<>> THEN grouped
    ELSE IF \E i \in 1..Len(grouped) : grouped[i].key[1] = Head(entries).ticket_id
    THEN GroupIntoById(
             [i \in 1..Len(grouped) |->
                 IF grouped[i].key[1] = Head(entries).ticket_id
                 THEN [grouped[i] EXCEPT !.entries = Append(@, Head(entries))]
                 ELSE grouped[i]],
             Tail(entries))
    ELSE GroupIntoById(
             Append(grouped, [key |-> <<Head(entries).ticket_id, Head(entries).ticket_name>>,
                              entries |-> <<Head(entries)>>]),
             Tail(entries))
group_by_ticket_id(entries) == GroupIntoById(<<>>, entries)

_group_entries_by_ticket(entries) == GroupInto(<<>>, entries)

\* _should_create_issue without the test of the skip terms
_should_create_issue_length_only(ticket_name) ==
    Len(Strip(ticket_name)) >= MIN_DESCRIPTION_LENGTH

\* SyncService._should_create_issue
_should_create_issue(ticket_name) ==
    IF Len(Strip(ticket_name)) < MIN_DESCRIPTION_LENGTH THEN FALSE
    ELSE ~\E i \in 1..Len(SKIP_GENERIC_TERMS) :
              Contains(Lower(ticket_name), Lower(SKIP_GENERIC_TERMS[i]))

\* ----------------------------- GitLab tracker ---------------------------
\* gitlab_issue = None
NoIssue == 0

IssueIids(issues) == {issues[i].iid : i \in 1..Len(issues)}
IssueIndex(issues, iid) == CHOOSE i \in 1..Len(issues) : issues[i].iid = iid

\* project.issues.list(search=..., in_='title' / 'description', state='all')
SearchIssues(issues, term, field) ==
    {issues[i].iid : i \in {k \in 1..Len(issues) :
        Contains(Lower(issues[k][field]), Lower(term))}}

\* GitLabClient.find_issue_by_ticket_id when no call raises: the issues it
\* may return (issues[0] of a search is the tracker's choice), NoIssue for None
find_issue_by_ticket_id(issues, ticket_id) ==
    IF ~Truthy(ticket_id) THEN {NoIssue}
    ELSE IF IsDigitStr(ticket_id) /\ StrToInt(ticket_id) \in IssueIids(issues)
    THEN {StrToInt(ticket_id)}
    ELSE IF SearchIssues(issues, ticket_id, "title") # {}
    THEN SearchIssues(issues, ticket_id, "title")
    ELSE IF SearchIssues(issues, ticket_id, "description") # {}
    THEN SearchIssues(issues, ticket_id, "description")
    ELSE {NoIssue}

\* The iid the tracker gives the next issue
NextIid(issues) ==
    1 + (CHOOSE m \in IssueIids(issues) \cup {0} :
            \A n \in IssueIids(issues) \cup {0} : n <= m)

\* GitLabClient.create_issue: the issue created (no assignee, no milestone)
create_issue(issues, title, description, estimate_seconds) ==
    [iid |-> NextIid(issues),
     title |-> title,
     description |-> description,
     time_estimate |-> IF estimate_seconds # 0 THEN estimate_seconds ELSE 0]

\* The note filter of get_time_tracking_entries (Method 1)
IsTrackingNote(body) ==
    \/ Contains(body, STR_TimeLogged) /\ Contains(body, STR_TogglID)
    \/ /\ Contains(body, STR_TogglID)
       /\ \/ Contains(body, <<"T", "o", "g", "g", "l", ":">>)
          \/ Contains(Lower(body),
                      <<"t", "i", "m", "e", " ", "l", "o", "g", "g", "e", "d">>)

\* Append the texts that carry a marker; with skip_known, only those whose id
\* is not yet among the entries (Method 3 of get_time_tracking_entries)
RECURSIVE CollectMarked(_, _, _)
CollectMarked(formatted_entries, texts, skip_known) ==
    IF texts = <<>> THEN formatted_entries
    ELSE
        LET toggl_id == MarkerSearch(Head(texts))
            known == \E i \in 1..Len(formatted_entries) :
                         formatted_entries[i].toggl_id = toggl_id
        IN IF toggl_id # None /\ ~(skip_known /\ known)
           THEN CollectMarked(
                    Append(formatted_entries,
                           [toggl_id |-> toggl_id, summary |-> Head(texts)]),
                    Tail(texts), skip_known)
           ELSE CollectMarked(formatted_entries, Tail(texts), skip_known)

\* unique_entries of get_time_tracking_entries: first entry of each toggl_id
RECURSIVE UniqueEntries(_, _)
UniqueEntries(seen, formatted_entries) ==
    IF formatted_entries = <<>> THEN seen
    ELSE IF \E i \in 1..Len(seen) : seen[i].toggl_id = Head(formatted_entries).toggl_id
    THEN UniqueEntries(seen, Tail(formatted_entries))
    ELSE UniqueEntries(Append(seen, Head(formatted_entries)), Tail(formatted_entries))

TextsOf(records, iid, field) ==
    LET own == SelectSeq(records, LAMBDA r : r.iid = iid)
    IN [i \in 1..Len(own) |-> own[i][field]]

\* GitLabClient.get_time_tracking_entries; notes_ok and events_ok tell whether
\* the notes listing and the resource_time_events request succeed
get_time_tracking_entries(notes, timelogs, issue_iid, notes_ok, events_ok) ==
    LET bodies == SelectSeq(TextsOf(notes, issue_iid, "body"), IsTrackingNote)
        from_notes == IF notes_ok THEN CollectMarked(<<>>, bodies, FALSE) ELSE <<>>
        from_events ==
            IF events_ok
            THEN CollectMarked(from_notes, TextsOf(timelogs, issue_iid, "summary"), TRUE)
            ELSE from_notes
    IN UniqueEntries(<<>>, from_events)

\* existing_toggl_ids of _sync_entries_to_issue
toggl_ids_of(existing_entries) ==
    {MarkerSearch(existing_entries[i].summary) : i \in 1..Len(existing_entries)}
        \ {None}

\* ------------------------------- Bounds ---------------------------------
\* Entries fetched from Toggl in one window
MaxEntries == 2
\* Invocations of the sync command
MaxRuns == 2
\* Collaborator calls that fail in one behaviour of SpecFaults
MaxFaults == 1
\* Durations given to round_time on its own
MaxDuration == 2000
\* Pieces in a description given to extract_ticket_info on its own
MaxTokens == 3

\* ------------------------------- Inputs ---------------------------------
Date(y, m, d) == [valid |-> TRUE, y |-> y, m |-> m, d |-> d]
\* a start timestamp datetime.fromisoformat rejects
BadStart == [valid |-> FALSE, y |-> 0, m |-> 0, d |-> 0]
Friday == Date(2024, 1, 5)
Saturday == Date(2024, 1, 6)

RawEntry(id, description, duration, billable, start, tags) ==
    [id |-> id, description |-> description, duration |-> duration,
     billable |-> billable, start |-> start, tags |-> tags]

\* The entries Toggl may hold, in the order of its response
TogglEntries == <<
    RawEntry(5, DESC_42_fix_nocolon, 700, FALSE, BadStart, <<>>),
    RawEntry(1, DESC_42_fix, 650, TRUE, Friday, <<>>),
    RawEntry(2, DESC_meeting, 400, FALSE, Friday, <<>>),
    RawEntry(3, DESC_42_test, 310, FALSE, Saturday, <<TAG_dev>>),
    RawEntry(4, DESC_docs, 85, TRUE, Friday, <<>>),
    RawEntry(6, DESC_7_board, 299, FALSE, Friday, <<>>),
    RawEntry(7, DESC_42_fix, 1200, TRUE, Friday, <<>>),
    RawEntry(8, DESC_42_marker, 900, FALSE, Friday, <<>>),
    RawEntry(9, DESC_ui, 600, FALSE, Friday, <<>>) >>

\* The subsequence of s at the positions in idx
RECURSIVE Pick(_, _, _)
Pick(s, idx, i) ==
    IF i > Len(s) THEN <<>>
    ELSE (IF i \in idx THEN <<s[i]>> ELSE <<>>) \o Pick(s, idx, i + 1)

\* MINIMUM_DURATION, ROUND_TIME_TO_MINUTES, SYNC_ONLY_BILLABLE, EXCLUDE_WEEKENDS
FilterProfiles == {
    <<300, 15, FALSE, FALSE>>,
    <<61, 1, FALSE, FALSE>>,
    <<0, 5, TRUE, FALSE>>,
    <<0, 15, FALSE, TRUE>> }

\* The settings tried: every combination of the switches with the profile of
\* short minimum, without time estimates also with the default profile; the
\* billable-only and the weekday profile with the default switches
ConfigOf(a, p, e, f) ==
    [AUTO_CREATE_ISSUES |-> a, PREVENT_DUPLICATES |-> p, ADD_TIME_ESTIMATES |-> e,
     MINIMUM_DURATION |-> f[1], ROUND_TIME_TO_MINUTES |-> f[2],
     SYNC_ONLY_BILLABLE |-> f[3], EXCLUDE_WEEKENDS |-> f[4]]
Configs ==
    {ConfigOf(a, p, e, <<61, 1, FALSE, FALSE>>) :
         a \in BOOLEAN, p \in BOOLEAN, e \in BOOLEAN}
    \cup {ConfigOf(a, p, FALSE, <<300, 15, FALSE, FALSE>>) : a \in BOOLEAN, p \in BOOLEAN}
    \cup {ConfigOf(TRUE, TRUE, FALSE, f) : f \in FilterProfiles}

\* The defaults of class Config
DefaultConfig ==
    [AUTO_CREATE_ISSUES |-> TRUE, PREVENT_DUPLICATES |-> TRUE,
     ADD_TIME_ESTIMATES |-> FALSE, MINIMUM_DURATION |-> 300,
     ROUND_TIME_TO_MINUTES |-> 15, SYNC_ONLY_BILLABLE |-> FALSE,
     EXCLUDE_WEEKENDS |-> FALSE]

\* The issue the project holds before the first run
InitialIssues == <<[iid |-> 42, title |-> TITLE_42, description |-> <<>>,
                    time_estimate |-> 0]>>

\* -------------------------------- State ---------------------------------
VARIABLES
    Config,             \* the settings of class Config
    toggl,              \* the time entries Toggl returns for the window
    issues,             \* tracker: the project's issues
    timelogs,           \* tracker: time-spent records
    notes,              \* tracker: issue notes
    run,                \* number of sync invocations started
    dry_run,            \* SyncService.dry_run
    pc,                 \* position in sync_time_entries
    processed_entries,  \* result of process_time_entries
    entries_by_ticket,  \* result of _group_entries_by_ticket
    gi,                 \* index of the group being reconciled
    ei,                 \* index of the entry in the loop of _sync_entries_to_issue
    gitlab_issue,       \* iid of the group's issue, or NoIssue
    existing_toggl_ids, \* ids recovered from the markers on the issue
    total_logged_time,  \* total_logged_time of _sync_entries_to_issue
    stats,              \* SyncService.stats
    calls,              \* collaborator calls made by this run, in order
    attempted,          \* ids of the entries the logging loop has handled
    log,                \* what each step of this run did, in order
    clean,              \* no call failed and no entry raised in this run
    faults,             \* failed collaborator calls so far
    fault_budget,       \* how many collaborator calls may fail
    run_limit,          \* how many invocations are made
    before,             \* tracker state when this run started
    prev,               \* the previous run: mode, stats, cleanliness, tracker untouched
    fn_arg,             \* argument of a function checked on its own
    fn_res,             \* its result
    cli                 \* the sync command of main.py: environment, position, exit status

tracker == <<issues, timelogs, notes>>
sync_vars == <<Config, toggl, issues, timelogs, notes, run, dry_run, pc,
    processed_entries, entries_by_ticket, gi, ei, gitlab_issue, existing_toggl_ids,
    total_logged_time, stats, calls, attempted, log, clean, faults, fault_budget,
    run_limit, before, prev>>
fn_vars == <<fn_arg, fn_res, cli>>
vars == <<sync_vars, fn_vars>>

\* SyncService.stats as set by __init__
ZeroStats ==
    [processed_entries |-> 0, synced_entries |-> 0, created_issues |-> 0,
     errors |-> 0, skipped_entries |-> 0, time_estimates_added |-> 0,
     total_time_synced |-> 0, billable_time_synced |-> 0]

Step(op, outcome, group, entry) ==
    [op |-> op, outcome |-> outcome, group |-> group, entry |-> entry]
Call(op, group, entry) == [op |-> op, group |-> group, entry |-> entry]

NoPrev == [valid |-> FALSE, dry_run |-> FALSE, stats |-> ZeroStats, clean |-> TRUE,
           untouched |-> TRUE]

NoFn == [applied |-> FALSE]

\* The sync command is not what runs
NoCli == [pc |-> "off"]

\* The state before the first invocation
SyncIdle ==
    /\ issues = InitialIssues /\ timelogs = <<>> /\ notes = <<>>
    /\ run = 0 /\ dry_run = FALSE /\ pc = "idle"
    /\ processed_entries = <<>> /\ entries_by_ticket = <<>>
    /\ gi = 0 /\ ei = 0 /\ gitlab_issue = NoIssue /\ existing_toggl_ids = {}
    /\ total_logged_time = 0 /\ stats = ZeroStats /\ calls = <<>>
    /\ attempted = <<>> /\ log = <<>> /\ clean = TRUE /\ faults = 0
    /\ before = <<InitialIssues, <<>>, <<>>>> /\ prev = NoPrev

\* Up to MaxEntries of the entries of Toggl, in the order of its response
TogglWindows ==
    {Pick(TogglEntries, idx, 1) :
        idx \in {s \in SUBSET (1..Len(TogglEntries)) : Cardinality(s) <= MaxEntries}}

\* Every configuration and window; every collaborator call succeeds
Init ==
    /\ Config \in Configs
    /\ toggl \in TogglWindows
    /\ SyncIdle
    /\ fault_budget = 0 /\ run_limit = MaxRuns
    /\ fn_arg = NoFn /\ fn_res = NoFn /\ cli = NoCli

\* A call may fail only while the fault budget lasts
MayFail(ok) == ok \/ faults < fault_budget
Failures(oks) == Cardinality({i \in 1..Len(oks) : ~oks[i]})

\* ------------------------------- Actions --------------------------------
\* SyncService.__init__ and sync_time_entries up to the loop over the groups
StartRun(dry, fetch_ok) ==
    /\ pc \in {"idle", "done"}
    /\ run < run_limit
    /\ MayFail(fetch_ok)
    /\ LET time_entries ==
               IF fetch_ok
               THEN get_time_entries(toggl, Config.SYNC_ONLY_BILLABLE,
                                     Config.MINIMUM_DURATION)
               ELSE <<>>
           processed ==
               process_time_entries(time_entries, Config.MINIMUM_DURATION,
                   Config.ROUND_TIME_TO_MINUTES, Config.EXCLUDE_WEEKENDS)
           grouped == _group_entries_by_ticket(processed)
       IN /\ processed_entries' = IF time_entries = <<>> THEN <<>> ELSE processed
          /\ entries_by_ticket' = IF time_entries = <<>> THEN <<>> ELSE grouped
          /\ pc' = IF time_entries = <<>> THEN "done"
                   ELSE IF grouped = <<>> THEN "finish" ELSE "resolve"
          /\ gi' = IF time_entries # <<>> /\ grouped # <<>> THEN 1 ELSE 0
    /\ run' = run + 1
    /\ dry_run' = dry
    /\ stats' = ZeroStats
    /\ calls' = <<Call("get_time_entries", 0, 0)>>
    /\ attempted' = <<>>
    /\ log' = <<Step("start", IF fetch_ok THEN "fetched" ELSE "fetch_failed", 0, 0)>>
    /\ clean' = fetch_ok
    /\ faults' = faults + Failures(<<fetch_ok>>)
    /\ before' = tracker
    /\ prev' = IF pc = "done"
               THEN [valid |-> TRUE, dry_run |-> dry_run, stats |-> stats,
                     clean |-> clean, untouched |-> (tracker = before)]
               ELSE NoPrev
    /\ ei' = 0 /\ gitlab_issue' = NoIssue /\ existing_toggl_ids' = {}
    /\ total_logged_time' = 0
    /\ UNCHANGED <<Config, toggl, issues, timelogs, notes, fault_budget, run_limit,
                   fn_vars>>

\* A loop over the groups that starts again at the first group after the last
NextGroupWrapping ==
    /\ pc' = "resolve"
    /\ gi' = IF gi < Len(entries_by_ticket) THEN gi + 1 ELSE 1
    /\ ei' = 0 /\ gitlab_issue' = NoIssue /\ existing_toggl_ids' = {}
    /\ total_logged_time' = 0

\* The loop of sync_time_entries moves to the next group, or ends
NextGroup ==
    /\ pc' = IF gi < Len(entries_by_ticket) THEN "resolve" ELSE "finish"
    /\ gi' = IF gi < Len(entries_by_ticket) THEN gi + 1 ELSE gi
    /\ ei' = 0 /\ gitlab_issue' = NoIssue /\ existing_toggl_ids' = {}
    /\ total_logged_time' = 0

\* A skipped group counted as errors instead
skip_group_as_errors(st, entries) == [st EXCEPT !.errors = @ + Len(entries)]

\* stats['skipped_entries'] += len(entries) of _sync_ticket_entries
skip_group(st, entries) == [st EXCEPT !.skipped_entries = @ + Len(entries)]

\* The guards of create_issue in _sync_ticket_entries
should_call_create_issue(accepted, auto_create_issues, dry) ==
    accepted /\ auto_create_issues /\ ~dry

\* SyncService._sync_ticket_entries up to the call of _sync_entries_to_issue
_sync_ticket_entries(find_ok, found, create_ok) ==
    LET ticket_id == entries_by_ticket[gi].key[1]
        ticket_name == entries_by_ticket[gi].key[2]
        entries == entries_by_ticket[gi].entries
        total_duration == SumDuration(entries)
        counted == [stats EXCEPT !.processed_entries = @ + Len(entries)]
        lookup == Truthy(ticket_id)
        found_issue == IF lookup /\ find_ok THEN found ELSE NoIssue
        find_calls == IF lookup THEN <<Call("find_issue_by_ticket_id", gi, 0)>> ELSE <<>>
        consider == found_issue = NoIssue /\ Truthy(ticket_name)
                    /\ Strip(ticket_name) # <<>>
        accepted == consider /\ _should_create_issue(ticket_name)
        estimate_seconds ==
            IF Config.ADD_TIME_ESTIMATES THEN TimesMultiplier(total_duration) ELSE 0
        created == create_issue(issues, ticket_name,
                       created_issue_description(ticket_id, total_duration),
                       estimate_seconds)
        skipped == skip_group(counted, entries)
        creating == should_call_create_issue(accepted, Config.AUTO_CREATE_ISSUES, dry_run)
    IN
    /\ pc = "resolve"
    /\ faults + Failures(<<find_ok, create_ok>>) <= fault_budget
    /\ lookup \/ find_ok
    /\ found \in find_issue_by_ticket_id(issues, ticket_id)
    /\ creating \/ create_ok
    /\ faults' = faults + Failures(<<find_ok, create_ok>>)
    /\ clean' = (clean /\ find_ok /\ create_ok)
    /\ IF found_issue # NoIssue
       THEN \* an existing issue was found
            /\ stats' = counted
            /\ calls' = calls \o find_calls
            /\ issues' = issues
            /\ gitlab_issue' = found_issue
            /\ pc' = "markers"
            /\ log' = Append(log, Step("resolve", "found", gi, 0))
            /\ UNCHANGED <<gi, ei, existing_toggl_ids, total_logged_time>>
       ELSE IF creating /\ create_ok
       THEN \* the issue is created
            /\ stats' = [counted EXCEPT
                   !.created_issues = @ + 1,
                   !.time_estimates_added =
                       IF estimate_seconds # 0 THEN @ + 1 ELSE @]
            /\ calls' = calls \o find_calls \o <<Call("create_issue", gi, 0)>>
            /\ issues' = Append(issues, created)
            /\ gitlab_issue' = created.iid
            /\ pc' = "markers"
            /\ log' = Append(log, Step("resolve", "created", gi, 0))
            /\ UNCHANGED <<gi, ei, existing_toggl_ids, total_logged_time>>
       ELSE IF creating
       THEN \* create_issue returned None
            /\ stats' = [counted EXCEPT !.errors = @ + 1]
            /\ calls' = calls \o find_calls \o <<Call("create_issue", gi, 0)>>
            /\ issues' = issues
            /\ log' = Append(log, Step("resolve", "create_failed", gi, 0))
            /\ NextGroup
       ELSE IF accepted /\ Config.AUTO_CREATE_ISSUES
       THEN \* dry run: the creation is only counted, no issue to sync to
            /\ stats' = [skipped EXCEPT !.created_issues = @ + 1]
            /\ calls' = calls \o find_calls
            /\ issues' = issues
            /\ log' = Append(log, Step("resolve", "would_create", gi, 0))
            /\ NextGroup
       ELSE \* AUTO_CREATE_ISSUES=false, name rejected, or no name
            /\ stats' = skipped
            /\ calls' = calls \o find_calls
            /\ issues' = issues
            /\ log' = Append(log, Step("resolve",
                           IF accepted THEN "auto_create_off"
                           ELSE IF consider THEN "rejected" ELSE "no_name", gi, 0))
            /\ NextGroup
    /\ UNCHANGED <<Config, toggl, timelogs, notes, run, dry_run, processed_entries,
                   entries_by_ticket, attempted, fault_budget, run_limit, before,
                   prev, fn_vars>>

SyncTicketEntries ==
    \E find_ok \in BOOLEAN, create_ok \in BOOLEAN, found \in IssueIids(issues) \cup {NoIssue} :
        _sync_ticket_entries(find_ok, found, create_ok)

\* _sync_entries_to_issue: the duplicate check before the loop
_read_markers(notes_ok, events_ok) ==
    /\ pc = "markers"
    /\ faults + Failures(<<notes_ok, events_ok>>) <= fault_budget
    /\ Config.PREVENT_DUPLICATES \/ (notes_ok /\ events_ok)
    /\ existing_toggl_ids' =
           IF Config.PREVENT_DUPLICATES
           THEN toggl_ids_of(get_time_tracking_entries(notes, timelogs, gitlab_issue,
                                                       notes_ok, events_ok))
           ELSE {}
    /\ calls' = IF Config.PREVENT_DUPLICATES
                THEN Append(calls, Call("get_time_tracking_entries", gi, 0))
                ELSE calls
    /\ faults' = faults + Failures(<<notes_ok, events_ok>>)
    /\ clean' = (clean /\ notes_ok /\ events_ok)
    /\ total_logged_time' = 0
    /\ ei' = 1
    /\ pc' = "entries"
    /\ log' = Append(log, Step("markers",
                    IF ~Config.PREVENT_DUPLICATES THEN "off"
                    ELSE IF notes_ok /\ events_ok THEN "read" ELSE "partial", gi, 0))
    /\ UNCHANGED <<Config, toggl, issues, timelogs, notes, run, dry_run,
                   processed_entries, entries_by_ticket, gi, gitlab_issue, stats,
                   attempted, fault_budget, run_limit, before, prev, fn_vars>>

ReadMarkers ==
    \E notes_ok \in BOOLEAN, events_ok \in BOOLEAN : _read_markers(notes_ok, events_ok)

\* GitLabClient.add_time_spent: the time record posted
time_record(issue_iid, duration_seconds, spent_at, description) ==
    [iid |-> issue_iid,
     duration |-> _seconds_to_gitlab_time(duration_seconds),
     spent_at |-> strftime(spent_at),
     summary |-> time_summary(description)]

\* GitLabClient.add_time_spent: whether the tracking note is written
writes_tracking_note(description) == MarkerSearch(description) # None

\* _sync_entries_to_issue: whether the entry is skipped as already synced
is_duplicate(entry, prevent_duplicates, existing) ==
    prevent_duplicates /\ IntToStr(entry.id) \in existing

\* The guard of add_time_spent in _sync_entries_to_issue
should_post_time(dry) == ~dry

\* The try/except around the loop instead of inside it: an entry that raises
\* ends the loop
next_entry_pc_abort(i, n_entries, raised) ==
    IF i < n_entries /\ ~raised THEN "entries" ELSE "post"

\* The loop over the entries goes on after an entry, whether or not it raised
next_entry_pc(i, n_entries, raised) == IF i < n_entries THEN "entries" ELSE "post"

\* _sync_entries_to_issue: one iteration of the loop over the entries
_sync_entry(post_ok, note_ok) ==
    LET entries == entries_by_ticket[gi].entries
        entry == entries[ei]
        description == entry_description(entry, Config.PREVENT_DUPLICATES)
        live == ~is_duplicate(entry, Config.PREVENT_DUPLICATES, existing_toggl_ids)
                /\ entry.start.valid /\ should_post_time(dry_run)
        noted == live /\ post_ok /\ writes_tracking_note(description)
    IN
    /\ pc = "entries"
    /\ faults + Failures(<<post_ok, note_ok>>) <= fault_budget
    /\ live \/ post_ok
    /\ noted \/ note_ok
    /\ faults' = faults + Failures(<<post_ok, note_ok>>)
    /\ attempted' = Append(attempted, entry.id)
    /\ ei' = ei + 1
    /\ pc' = next_entry_pc(ei, Len(entries), ~entry.start.valid \/ (live /\ ~post_ok))
    /\ IF is_duplicate(entry, Config.PREVENT_DUPLICATES, existing_toggl_ids)
       THEN /\ stats' = [stats EXCEPT !.skipped_entries = @ + 1]
            /\ log' = Append(log, Step("entry", "duplicate", gi, entry.id))
            /\ UNCHANGED <<timelogs, notes, calls, total_logged_time, clean>>
       ELSE IF ~entry.start.valid
       THEN \* datetime.fromisoformat raises
            /\ stats' = [stats EXCEPT !.errors = @ + 1]
            /\ log' = Append(log, Step("entry", "parse_error", gi, entry.id))
            /\ clean' = FALSE
            /\ UNCHANGED <<timelogs, notes, calls, total_logged_time>>
       ELSE IF ~should_post_time(dry_run)
       THEN /\ stats' = [stats EXCEPT !.synced_entries = @ + 1]
            /\ total_logged_time' = total_logged_time + entry.duration
            /\ log' = Append(log, Step("entry", "would_log", gi, entry.id))
            /\ UNCHANGED <<timelogs, notes, calls, clean>>
       ELSE IF post_ok
       THEN /\ stats' = [stats EXCEPT !.synced_entries = @ + 1]
            /\ total_logged_time' = total_logged_time + entry.duration
            /\ timelogs' = Append(timelogs,
                   time_record(gitlab_issue, entry.duration, entry.start, description))
            /\ notes' = IF noted /\ note_ok
                        THEN Append(notes,
                                 [iid |-> gitlab_issue,
                                  body |-> tracking_note_text(entry.duration,
                                               entry.start, description)])
                        ELSE notes
            /\ calls' = calls \o <<Call("add_time_spent", gi, entry.id)>>
                   \o (IF noted THEN <<Call("add_note_to_issue", gi, entry.id)>>
                       ELSE <<>>)
            /\ clean' = (clean /\ note_ok)
            /\ log' = Append(log, Step("entry", "logged", gi, entry.id))
       ELSE \* add_time_spent returned False
            /\ stats' = [stats EXCEPT !.errors = @ + 1]
            /\ calls' = Append(calls, Call("add_time_spent", gi, entry.id))
            /\ clean' = FALSE
            /\ log' = Append(log, Step("entry", "failed", gi, entry.id))
            /\ UNCHANGED <<timelogs, notes, total_logged_time>>
    /\ UNCHANGED <<Config, toggl, issues, run, dry_run, processed_entries,
                   entries_by_ticket, gi, gitlab_issue, existing_toggl_ids,
                   fault_budget, run_limit, before, prev, fn_vars>>

SyncEntry == \E post_ok \in BOOLEAN, note_ok \in BOOLEAN : _sync_entry(post_ok, note_ok)

\* The guard of the time estimate
should_add_estimate(add_time_estimates, total_logged, dry) ==
    add_time_estimates /\ total_logged > 0 /\ ~dry

\* The summary note written in dry runs too
should_add_summary_note_any_mode(entries, dry) == Len(entries) > 1

\* The guard of the summary note
should_add_summary_note(entries, dry) == Len(entries) > 1 /\ ~dry

\* A failed set_time_estimate counted as an error
stats_after_estimate_counting_errors(st, setting, success) ==
    IF setting /\ success THEN [st EXCEPT !.time_estimates_added = @ + 1]
    ELSE IF setting THEN [st EXCEPT !.errors = @ + 1]
    ELSE st

\* stats['time_estimates_added'] += 1 when set_time_estimate succeeds
stats_after_estimate(st, setting, success) ==
    IF setting /\ success THEN [st EXCEPT !.time_estimates_added = @ + 1] ELSE st

\* _sync_entries_to_issue after the loop: time estimate and summary note
_post_group(stats_ok, set_ok, note_ok) ==
    LET entries == entries_by_ticket[gi].entries
        i == IssueIndex(issues, gitlab_issue)
        estimating == should_add_estimate(Config.ADD_TIME_ESTIMATES, total_logged_time,
                                          dry_run)
        estimate_seconds == TimesMultiplier(total_logged_time)
        \* get_issue_time_stats returns {} when the request fails
        time_estimate == IF stats_ok THEN issues[i].time_estimate ELSE 0
        setting == estimating /\ time_estimate = 0
        noting == should_add_summary_note(entries, dry_run)
    IN
    /\ pc = "post"
    /\ faults + Failures(<<stats_ok, set_ok, note_ok>>) <= fault_budget
    /\ estimating \/ stats_ok
    /\ setting \/ set_ok
    /\ noting \/ note_ok
    /\ faults' = faults + Failures(<<stats_ok, set_ok, note_ok>>)
    /\ clean' = (clean /\ stats_ok /\ set_ok /\ note_ok)
    /\ issues' = IF setting /\ set_ok
                 THEN [issues EXCEPT ![i].time_estimate =
                          GitlabTimeSeconds(_seconds_to_gitlab_time(estimate_seconds))]
                 ELSE issues
    /\ stats' = stats_after_estimate(stats, setting, set_ok)
    /\ notes' = IF noting /\ note_ok
                THEN Append(notes, [iid |-> gitlab_issue,
                         body |-> summary_note_text(Len(entries), total_logged_time)])
                ELSE notes
    /\ calls' = calls
           \o (IF estimating THEN <<Call("get_issue_time_stats", gi, 0)>> ELSE <<>>)
           \o (IF setting THEN <<Call("set_time_estimate", gi, 0)>> ELSE <<>>)
           \o (IF noting THEN <<Call("add_note_to_issue", gi, 0)>> ELSE <<>>)
    /\ log' = Append(log, Step("post", IF stats_ok /\ set_ok /\ note_ok THEN "done" ELSE "failed",
                    gi, 0))
    /\ NextGroup
    /\ UNCHANGED <<Config, toggl, timelogs, run, dry_run, processed_entries,
                   entries_by_ticket, attempted, fault_budget, run_limit, before,
                   prev, fn_vars>>

PostGroup ==
    \E stats_ok \in BOOLEAN, set_ok \in BOOLEAN, note_ok \in BOOLEAN :
        _post_group(stats_ok, set_ok, note_ok)

\* total_time_synced and billable_time_synced of sync_time_entries
total_time_synced(entries, minimum_duration, sync_only_billable) ==
    SumDuration(SelectSeq(entries, LAMBDA entry :
        _should_sync_entry(entry, minimum_duration, sync_only_billable)))
billable_time_synced(entries, minimum_duration, sync_only_billable) ==
    SumDuration(SelectSeq(entries, LAMBDA entry :
        entry.billable /\ _should_sync_entry(entry, minimum_duration, sync_only_billable)))

\* sync_time_entries after the loop: the final stats
FinishRun ==
    /\ pc = "finish"
    /\ stats' = [stats EXCEPT
           !.total_time_synced =
               total_time_synced(processed_entries, Config.MINIMUM_DURATION,
                                 Config.SYNC_ONLY_BILLABLE),
           !.billable_time_synced =
               billable_time_synced(processed_entries, Config.MINIMUM_DURATION,
                                    Config.SYNC_ONLY_BILLABLE)]
    /\ pc' = "done"
    /\ log' = Append(log, Step("finish", "done", 0, 0))
    /\ UNCHANGED <<Config, toggl, issues, timelogs, notes, run, dry_run,
                   processed_entries, entries_by_ticket, gi, ei, gitlab_issue,
                   existing_toggl_ids, total_logged_time, calls, attempted, clean,
                   faults, fault_budget, run_limit, before, prev, fn_vars>>

Next ==
    \/ \E dry \in BOOLEAN, fetch_ok \in BOOLEAN : StartRun(dry, fetch_ok)
    \/ SyncTicketEntries
    \/ ReadMarkers
    \/ SyncEntry
    \/ PostGroup
    \/ FinishRun

Spec == Init /\ [][Next]_vars

\* ----------------------- round_time on its own --------------------------
ROUND_CHOICES == {1, 5, 10, 15, 30}

InitRound ==
    /\ Config = DefaultConfig
    /\ toggl = <<>>
    /\ SyncIdle
    /\ fault_budget = 0 /\ run_limit = 0
    /\ \E d \in 0..MaxDuration, r \in ROUND_CHOICES :
           fn_arg = [applied |-> TRUE, duration_seconds |-> d, round_to_minutes |-> r]
    /\ fn_res = NoFn /\ cli = NoCli

ApplyRound ==
    /\ ~fn_res.applied
    /\ fn_res' = [applied |-> TRUE,
                  value |-> round_time(fn_arg.duration_seconds, fn_arg.round_to_minutes)]
    /\ UNCHANGED <<sync_vars, fn_arg, cli>>

\* One run, in which up to MaxFaults collaborator calls fail
InitFaults ==
    /\ Config \in Configs
    /\ toggl \in TogglWindows
    /\ SyncIdle
    /\ fault_budget = MaxFaults /\ run_limit = 1
    /\ fn_arg = NoFn /\ fn_res = NoFn /\ cli = NoCli

SpecFaults == InitFaults /\ [][Next]_vars

SpecRound == InitRound /\ [][ApplyRound]_vars


\* ----------------------- The sync command of main.py --------------------
\* The settings Config.validate looks at, after the overrides of the command:
\* a required setting is unset, empty or set; the project id is unset, numeric
\* or a path
Environments ==
    [TOGGL_API_TOKEN : {None, <<>>, <<"t">>},
     TOGGL_WORKSPACE_ID : {None, <<>>, <<"9">>},
     GITLAB_TOKEN : {None, <<>>, <<"t">>},
     GITLAB_PROJECT_ID : {None, <<"1", "2">>, <<"g", "/", "p">>},
     SYNC_DAYS_BACK : {-1, 0, 7}]

\* Config.validate without the test of MINIMUM_DURATION
validate_without_minimum(env, config) ==
    /\ Truthy(env.TOGGL_API_TOKEN) /\ Truthy(env.TOGGL_WORKSPACE_ID)
    /\ Truthy(env.GITLAB_TOKEN)
    /\ Truthy(env.GITLAB_PROJECT_ID) /\ IsDigitStr(env.GITLAB_PROJECT_ID)
    /\ ~(env.SYNC_DAYS_BACK <= 0)
    /\ config.ROUND_TIME_TO_MINUTES \in {1, 5, 10, 15, 30}

\* Config.validate: TRUE when it returns, FALSE when it raises ValueError
validate(env, config) ==
    LET missing_fields ==
            {field \in {"TOGGL_API_TOKEN", "TOGGL_WORKSPACE_ID", "GITLAB_TOKEN",
                        "GITLAB_PROJECT_ID"} : ~Truthy(env[field])}
        invalid_fields ==
            {field \in {"GITLAB_PROJECT_ID"} :
                 Truthy(env[field]) /\ ~IsDigitStr(env[field])}
            \cup (IF env.SYNC_DAYS_BACK <= 0 THEN {"SYNC_DAYS_BACK"} ELSE {})
            \cup (IF config.MINIMUM_DURATION < 0 THEN {"MINIMUM_DURATION"} ELSE {})
            \cup (IF config.ROUND_TIME_TO_MINUTES \notin {1, 5, 10, 15, 30}
                  THEN {"ROUND_TIME_TO_MINUTES"} ELSE {})
    IN missing_fields = {} /\ invalid_fields = {}

\* SyncService.test_connections; toggl_ok: the Toggl calls raise nothing,
\* gitlab_ok: test_connection returns True and get_project_info raises nothing
test_connections(toggl_ok, gitlab_ok) ==
    IF ~toggl_ok THEN FALSE
    ELSE IF ~gitlab_ok THEN FALSE
    ELSE TRUE

\* An entry whose description has 250 characters: "#42: fix" and 242 times "x"
LongEntry ==
    RawEntry(10, DESC_42_fix \o [i \in 1..242 |-> "x"], 600, TRUE, Friday, <<TAG_dev>>)

\* The command started on a window of at most one entry
InitCli ==
    /\ \E min \in {-1, 0, 300}, round \in ROUND_CHOICES \cup {7} :
           Config = ConfigOf(TRUE, TRUE, FALSE, <<min, round, FALSE, FALSE>>)
    /\ toggl \in {w \in TogglWindows : Len(w) <= 1} \cup {<<LongEntry>>}
    /\ SyncIdle
    /\ fault_budget = 0 /\ run_limit = 0
    /\ fn_arg = NoFn /\ fn_res = NoFn
    /\ \E env \in Environments :
           cli = [pc |-> "start", env |-> env, connections |-> "untested",
                  exit_status |-> 0]

\* sync(): service = SyncService(); a ValueError of Config.validate or an
\* exception of GitLabClient.__init__ ends the command with status 1
CliConstruct(gitlab_init_ok) ==
    /\ cli.pc = "start"
    /\ cli' = IF validate(cli.env, Config) /\ gitlab_init_ok
              THEN [cli EXCEPT !.pc = "constructed"]
              ELSE [cli EXCEPT !.pc = "exited", !.exit_status = 1]
    /\ UNCHANGED <<sync_vars, fn_arg, fn_res>>

\* sync(): if not service.test_connections(): sys.exit(1)
CliTestConnections(toggl_ok, gitlab_ok) ==
    /\ cli.pc = "constructed"
    /\ IF test_connections(toggl_ok, gitlab_ok)
       THEN /\ cli' = [cli EXCEPT !.pc = "syncing", !.connections = "ok"]
            /\ run_limit' = 1
       ELSE /\ cli' = [cli EXCEPT !.pc = "exited", !.connections = "failed",
                                  !.exit_status = 1]
            /\ run_limit' = run_limit
    /\ UNCHANGED <<Config, toggl, issues, timelogs, notes, run, dry_run, pc,
                   processed_entries, entries_by_ticket, gi, ei, gitlab_issue,
                   existing_toggl_ids, total_logged_time, stats, calls, attempted,
                   log, clean, faults, fault_budget, before, prev, fn_arg, fn_res>>

\* sync(): after sync_time_entries, sys.exit(1) if stats['errors'] > 0
CliExit ==
    /\ cli.pc = "syncing" /\ pc = "done"
    /\ cli' = [cli EXCEPT !.pc = "exited",
                          !.exit_status = IF stats.errors > 0 THEN 1 ELSE 0]
    /\ UNCHANGED <<sync_vars, fn_arg, fn_res>>

NextCli ==
    \/ \E gitlab_init_ok \in BOOLEAN : CliConstruct(gitlab_init_ok)
    \/ \E toggl_ok \in BOOLEAN, gitlab_ok \in BOOLEAN :
           CliTestConnections(toggl_ok, gitlab_ok)
    \/ CliExit
    \/ Next

SpecCli == InitCli /\ [][NextCli]_vars

\* ------------------- extract_ticket_info on its own ---------------------
\* Pieces descriptions are made of
Tokens ==
    {STR_kazoo, STR_issue \o <<" ">>, <<"#">>, <<"[">>, <<"]">>, <<"(">>, <<")">>,
     <<"A", "B", "-", "7">>, <<"7">>, <<":">>, <<" ">>, <<"x">>, <<"-">>}

\* The descriptions of at most n pieces
RECURSIVE Descriptions(_)
Descriptions(n) ==
    IF n = 0 THEN {<<>>}
    ELSE {d \o t : d \in Descriptions(n - 1), t \in Tokens \cup {<<>>}}

InitParse ==
    /\ Config = DefaultConfig
    /\ toggl = <<>>
    /\ SyncIdle
    /\ fault_budget = 0 /\ run_limit = 0
    /\ \E description \in Descriptions(MaxTokens) :
           fn_arg = [applied |-> TRUE, description |-> description]
    /\ fn_res = NoFn /\ cli = NoCli

ApplyParse ==
    /\ ~fn_res.applied
    /\ fn_res' = [applied |-> TRUE, value |-> extract_ticket_info(fn_arg.description)]
    /\ UNCHANGED <<sync_vars, fn_arg, cli>>

SpecParse == InitParse /\ [][ApplyParse]_vars

\* ------------------- process_time_entries on its own --------------------
\* Raw entries numbered by position: running, empty, short and long ones,
\* started on a Friday, a Saturday, a Monday or at an unreadable time
InitProcess ==
    /\ Config = DefaultConfig
    /\ toggl = <<>>
    /\ SyncIdle
    /\ fault_budget = 0 /\ run_limit = 0
    /\ \E n \in 0..MaxEntries :
           \E duration \in [1..n -> {-1, 0, 299, 300}],
              start \in [1..n -> {BadStart, Friday, Saturday, Date(2024, 1, 8)}],
              minimum_duration \in {0, 300}, exclude_weekends \in BOOLEAN :
               fn_arg = [applied |-> TRUE,
                         time_entries |->
                             [i \in 1..n |-> RawEntry(i, DESC_42_fix, duration[i],
                                                      FALSE, start[i], <<>>)],
                         minimum_duration |-> minimum_duration,
                         exclude_weekends |-> exclude_weekends]
    /\ fn_res = NoFn /\ cli = NoCli

ApplyProcess ==
    /\ ~fn_res.applied
    /\ fn_res' = [applied |-> TRUE,
                  value |-> process_time_entries(fn_arg.time_entries,
                                fn_arg.minimum_duration, Config.ROUND_TIME_TO_MINUTES,
                                fn_arg.exclude_weekends)]
    /\ UNCHANGED <<sync_vars, fn_arg, cli>>

SpecProcess == InitProcess /\ [][ApplyProcess]_vars

\* ------------------- Repeated runs with failing calls --------------------
\* A second entry with the description "docs v2"
DocsAgain == RawEntry(11, DESC_docs, 120, FALSE, Friday, <<>>)

\* Windows synced again and again: one or two entries of issue 42, two
\* entries of a ticketless key, one entry of a ticket without an issue
RerunWindows ==
    { <<TogglEntries[2]>>,
      <<TogglEntries[2], TogglEntries[7]>>,
      <<TogglEntries[5], DocsAgain>>,
      <<TogglEntries[6]>> }

\* Up to MaxRuns runs in which, in all, up to MaxFaults + 1 calls fail
InitRerun ==
    /\ Config \in {ConfigOf(TRUE, TRUE, e, <<61, 1, FALSE, FALSE>>) : e \in BOOLEAN}
    /\ toggl \in RerunWindows
    /\ SyncIdle
    /\ fault_budget = MaxFaults + 1 /\ run_limit = MaxRuns
    /\ fn_arg = NoFn /\ fn_res = NoFn /\ cli = NoCli

SpecRerun == InitRerun /\ [][Next]_vars

\* ------------------- cleanup_duplicates.get_recent_time_notes ------------
\* Look-back days tried
MaxDaysBack == 2
\* Notes on the issue
MaxNotes == 2

\* Days of the month m of year y
DaysInMonth(y, m) ==
    IF m = 2
    THEN (IF y % 4 = 0 /\ (y % 100 # 0 \/ y % 400 = 0) THEN 29 ELSE 28)
    ELSE IF m \in {4, 6, 9, 11} THEN 30 ELSE 31

\* datetime.replace(day=day): not valid when it raises ValueError, the day
\* being outside 1..days of the month
replace_day(date, day) ==
    IF day < 1 \/ day > DaysInMonth(date.y, date.m) THEN BadStart
    ELSE Date(date.y, date.m, day)

\* get_recent_time_notes: the notes returned, [] from the except branch when
\* the computation of cutoff_date raises
get_recent_time_notes(issue_notes, today, days_back) ==
    IF ~replace_day(today, today.d - days_back).valid THEN <<>>
    ELSE SelectSeq(issue_notes, LAMBDA note :
             /\ Contains(note.body, <<"a", "d", "d", "e", "d">>)
             /\ Contains(note.body, <<"t", "i", "m", "e", " ", "s", "p", "e", "n", "t">>)
             /\ DaysFromCivil(note.created_at.y, note.created_at.m, note.created_at.d)
                    >= DaysFromCivil(today.y, today.m, today.d - days_back))

\* The current date, days_back and the notes of the issue: up to MaxNotes
\* notes, "added 1h of time spent" or "closed", created around 1 March 2024
InitCleanup ==
    /\ Config = DefaultConfig
    /\ toggl = <<>>
    /\ SyncIdle
    /\ fault_budget = 0 /\ run_limit = 0
    /\ \E n \in 0..MaxNotes, days_back \in 0..MaxDaysBack,
          today \in {Date(2024, 3, 1), Date(2024, 3, 2), Date(2024, 3, 3),
                     Date(2024, 3, 31)} :
           \E body \in [1..n -> {<<"a", "d", "d", "e", "d", " ", "1", "h", " ", "o", "f",
                                   " ", "t", "i", "m", "e", " ", "s", "p", "e", "n", "t">>,
                                 <<"c", "l", "o", "s", "e", "d">>}],
              created_at \in [1..n -> {Date(2024, 2, 28), Date(2024, 2, 29),
                                       Date(2024, 3, 1), Date(2024, 3, 2),
                                       Date(2024, 3, 3), Date(2024, 3, 30)}] :
               fn_arg = [applied |-> TRUE,
                         notes |-> [i \in 1..n |->
                                       [id |-> i, body |-> body[i],
                                        created_at |-> created_at[i]]],
                         today |-> today,
                         days_back |-> days_back]
    /\ fn_res = NoFn /\ cli = NoCli

ApplyCleanup ==
    /\ ~fn_res.applied
    /\ fn_res' = [applied |-> TRUE,
                  value |-> get_recent_time_notes(fn_arg.notes, fn_arg.today,
                                                  fn_arg.days_back)]
    /\ UNCHANGED <<sync_vars, fn_arg, cli>>

SpecCleanup == InitCleanup /\ [][ApplyCleanup]_vars
\* ============================== Properties ==============================
\* Collaborator operations that change the tracker
MutatingOps == {"create_issue", "add_time_spent", "set_time_estimate",
                "add_note_to_issue"}
OpsCalled == {calls[i].op : i \in 1..Len(calls)}
Events == {log[i] : i \in 1..Len(log)}
LastEvent == log[Len(log)]
Finished == pc = "done" /\ log # <<>>

\* C1 (as stated): after a live invocation in which every call succeeded, a
\* second live invocation over the same entries with duplicate prevention on
\* syncs nothing and skips every processed entry.
C1_SecondRunSyncsNothing ==
    (/\ Finished /\ ~dry_run /\ clean
     /\ prev.valid /\ ~prev.dry_run /\ prev.clean
     /\ Config.PREVENT_DUPLICATES)
    => /\ stats.synced_entries = 0
       /\ stats.skipped_entries = stats.processed_entries

\* C2: during a dry-run invocation none of create_issue, add_time_spent,
\* set_time_estimate and add_note_to_issue is called, and the tracker stays
\* as it was when the invocation started.
C2_DryRunCallsNoMutator ==
    dry_run => /\ OpsCalled \cap MutatingOps = {}
               /\ tracker = before

\* A finished dry run that reported entries as synced and an issue as created
C2_Witness ==
    /\ Finished /\ dry_run
    /\ stats.synced_entries > 0
    /\ stats.created_issues > 0

\* C3 (as stated): a dry run followed by a live run over the same entries and
\* the same starting tracker state, every call succeeding, report the same
\* synced_entries and created_issues.
C3_DryRunReportsLiveCounters ==
    (/\ Finished /\ ~dry_run
     /\ prev.valid /\ prev.dry_run /\ prev.untouched)
    => /\ stats.synced_entries = prev.stats.synced_entries
       /\ stats.created_issues = prev.stats.created_issues

\* The scenario of C4: entries 1 ('#42: fix', 650 s, billable) and 2
\* ('meeting', 400 s, non-billable), minDuration 300, roundTo 15, auto-create
\* and duplicate prevention on, 'meeting' a skip term, issue 42 existing
Scenario ==
    /\ Len(toggl) = 2
    /\ toggl[1].id = 1 /\ toggl[1].description = DESC_42_fix
    /\ toggl[1].duration = 650 /\ toggl[1].billable
    /\ toggl[2].id = 2 /\ toggl[2].description = DESC_meeting
    /\ toggl[2].duration = 400 /\ ~toggl[2].billable
    /\ Config.MINIMUM_DURATION = 300 /\ Config.ROUND_TIME_TO_MINUTES = 15
    /\ Config.AUTO_CREATE_ISSUES /\ Config.PREVENT_DUPLICATES
    /\ \E i \in 1..Len(SKIP_GENERIC_TERMS) : SKIP_GENERIC_TERMS[i] = TERM_meeting
    /\ run = 1 /\ ~dry_run /\ Finished

\* What the scenario leaves behind, but for the time logged
ScenarioOutcome ==
    /\ Len(timelogs) = 1 /\ timelogs[1].iid = 42
    /\ Contains(timelogs[1].summary, STR_TogglID \o <<"1", "]">>)
    /\ \E g \in 1..Len(entries_by_ticket) :
           /\ entries_by_ticket[g].key = <<None, DESC_meeting>>
           /\ Step("resolve", "rejected", g, 0) \in Events
    /\ stats.processed_entries = 2
    /\ stats.synced_entries = 1
    /\ stats.skipped_entries = 1

\* C4 (amended): in the scenario a live run logs 900 s (650 s rounded to the
\* nearest 15 min) to issue 42 with marker [TogglID:1], rejects the group
\* (None, 'meeting') and returns processed_entries = 2, synced_entries = 1,
\* skipped_entries = 1.
C4_ScenarioLogs900 ==
    Scenario => /\ ScenarioOutcome
                /\ GitlabTimeSeconds(timelogs[1].duration) = 900

\* The scenario has run
C4_Witness == Scenario /\ timelogs # <<>>

\* C4 (as stated): the same, with 600 s logged to issue 42.
C4_ScenarioLogs600 ==
    Scenario => /\ ScenarioOutcome
                /\ GitlabTimeSeconds(timelogs[1].duration) = 600

\* Two processed entries are in the same group
SameGroup(a, b) ==
    \E g \in 1..Len(entries_by_ticket) :
        /\ a \in Range(entries_by_ticket[g].entries)
        /\ b \in Range(entries_by_ticket[g].entries)

\* C5 (amended): two processed entries with the same non-null ticket_id are
\* placed in the same group by _group_entries_by_ticket exactly when their
\* ticket_name is the same too.
C5_SameKeySameGroup ==
    \A a \in Range(processed_entries), b \in Range(processed_entries) :
        (a.ticket_id = b.ticket_id /\ a.ticket_id # None)
        => (SameGroup(a, b) <=> a.ticket_name = b.ticket_name)

\* Two entries with different descriptions and the same key share a group
C5_Witness ==
    \E a \in Range(processed_entries), b \in Range(processed_entries) :
        /\ a.id # b.id /\ a.description # b.description
        /\ a.ticket_id = b.ticket_id /\ a.ticket_id # None
        /\ a.ticket_name = b.ticket_name
        /\ SameGroup(a, b)

\* C5 (as stated): two processed entries with the same non-null ticket_id are
\* placed in the same group even when their ticket_name differs.
C5_SameIdSameGroup ==
    \A a \in Range(processed_entries), b \in Range(processed_entries) :
        (a.ticket_id = b.ticket_id /\ a.ticket_id # None) => SameGroup(a, b)

\* round_time has been applied to d seconds and 15 minutes
RoundedAt15(d) ==
    /\ fn_res.applied
    /\ fn_arg.duration_seconds = d /\ fn_arg.round_to_minutes = 15

\* C6 (amended): round_time(310 s, 15 min) = 900 s and
\* round_time(1 s, 15 min) = 900 s.
C6_RoundingFixtures ==
    /\ RoundedAt15(310) => fn_res.value = 900
    /\ RoundedAt15(1) => fn_res.value = 900

\* round_time applied to 310 s and 15 min
C6_Witness == RoundedAt15(310)

\* C6 (as stated): round_time(310 s, 15 min) = 300 s and
\* round_time(1 s, 15 min) = 900 s.
C6_RoundingFixturesAsStated ==
    /\ RoundedAt15(310) => fn_res.value = 300
    /\ RoundedAt15(1) => fn_res.value = 900

\* The entries left when those of duration minDuration - 1 and, in
\* billable-only mode, the non-billable ones are taken away
WithoutExcluded(entries) ==
    SelectSeq(entries, LAMBDA entry :
        /\ entry.duration # Config.MINIMUM_DURATION - 1
        /\ Config.SYNC_ONLY_BILLABLE => entry.billable)

\* C7: an entry whose duration is minDuration - 1 contributes nothing to
\* total_time_synced nor to billable_time_synced, and neither does a
\* non-billable entry in billable-only mode: the totals of a finished run are
\* those of the processed entries without them.
C7_ShouldSyncFilter ==
    (Finished /\ LastEvent.op = "finish")
    => /\ stats.total_time_synced =
              total_time_synced(WithoutExcluded(processed_entries),
                  Config.MINIMUM_DURATION, Config.SYNC_ONLY_BILLABLE)
       /\ stats.billable_time_synced =
              billable_time_synced(WithoutExcluded(processed_entries),
                  Config.MINIMUM_DURATION, Config.SYNC_ONLY_BILLABLE)

\* A finished run with a processed entry of duration minDuration - 1 and a
\* positive total
C7_Witness ==
    /\ Finished /\ LastEvent.op = "finish"
    /\ \E i \in 1..Len(processed_entries) :
           processed_entries[i].duration = Config.MINIMUM_DURATION - 1
    /\ stats.total_time_synced > 0

\* Steps of the logging loop in which the submission of the entry failed
EntryFailures ==
    {i \in 1..Len(log) : /\ log[i].op = "entry"
                         /\ log[i].outcome \in {"failed", "parse_error"}}
CreateFailures ==
    {i \in 1..Len(log) : log[i].op = "resolve" /\ log[i].outcome = "create_failed"}
EventsOf(op, g, id) ==
    {i \in 1..Len(log) : log[i].op = op /\ log[i].group = g /\ log[i].entry = id}

\* The loop over the groups is past group g, or past its entries
PastEntries(g) ==
    \/ g < gi
    \/ g = gi /\ pc = "post"
    \/ g <= gi /\ pc \in {"finish", "done"}

\* C8: a failed submission of an entry (add_time_spent fails, or the start
\* timestamp cannot be parsed) adds exactly 1 to errors, and every entry of a
\* group synced to an issue and every group is still attempted once:
\* errors counts the failed steps, every group the loop is past was resolved
\* once, and each entry of a group that got an issue was attempted once.
C8_PartialFailure ==
    /\ stats.errors = Cardinality(EntryFailures) + Cardinality(CreateFailures)
    /\ \A g \in 1..Len(entries_by_ticket) :
           PastEntries(g) =>
               /\ Cardinality(EventsOf("resolve", g, 0)) = 1
               /\ (\E i \in EventsOf("resolve", g, 0) :
                       log[i].outcome \in {"found", "created"})
                  => \A k \in 1..Len(entries_by_ticket[g].entries) :
                         Cardinality(EventsOf("entry", g,
                             entries_by_ticket[g].entries[k].id)) = 1

\* After add_time_spent failed for an entry, a later entry of the same group
\* was logged
C8_Witness ==
    /\ Finished
    /\ \E i \in EntryFailures, j \in 1..Len(log) :
           /\ i < j /\ log[i].outcome = "failed"
           /\ log[j].op = "entry" /\ log[j].group = log[i].group
           /\ log[j].outcome = "logged"

\* The issue holds a marker [TogglID:<id>] in a time record or a note
MarkedOnIssue(id, iid) ==
    \E text \in Range(TextsOf(timelogs, iid, "summary"))
                \cup Range(TextsOf(notes, iid, "body")) :
        Contains(text, STR_TogglID \o IntToStr(id) \o <<"]">>)

\* C9 (as stated): with duplicate prevention on and the marker lookup succeeding, an entry
\* whose id is in a [TogglID:<id>] marker on the target issue is not passed to
\* add_time_spent; the step adds exactly 1 to skipped_entries and leaves
\* errors, synced_entries and the tracker as they are.
C9_DuplicateExclusion ==
    [][(/\ pc = "entries" /\ Config.PREVENT_DUPLICATES
        /\ MarkedOnIssue(entries_by_ticket[gi].entries[ei].id, gitlab_issue))
       => /\ stats' = [stats EXCEPT !.skipped_entries = @ + 1]
          /\ calls' = calls
          /\ tracker' = tracker]_vars

\* The group being resolved has no issue and will get none
NoTargetIssue ==
    /\ pc = "resolve"
    /\ \/ ~Truthy(entries_by_ticket[gi].key[1])
       \/ find_issue_by_ticket_id(issues, entries_by_ticket[gi].key[1]) = {NoIssue}
    /\ \/ ~Config.AUTO_CREATE_ISSUES
       \/ ~Truthy(entries_by_ticket[gi].key[2])
       \/ ~_should_create_issue(entries_by_ticket[gi].key[2])

\* C10: when a group ends with no issue (no ticket id or nothing found, and
\* creation rejected or auto-create off), skipped_entries grows by the number
\* of entries of the group, errors is unchanged, the loop leaves the group,
\* and no add_time_spent, set_time_estimate or add_note_to_issue call has
\* been made for it.
C10_GroupWithoutIssue ==
    [][NoTargetIssue
       => /\ stats'.skipped_entries =
                 stats.skipped_entries + Len(entries_by_ticket[gi].entries)
          /\ stats'.errors = stats.errors
          /\ tracker' = tracker
          /\ \/ pc' = "resolve" /\ gi' = gi + 1
             \/ pc' = "finish"
          /\ \A i \in 1..Len(calls') :
                 calls'[i].group = gi => calls'[i].op = "find_issue_by_ticket_id"]_vars

\* A group has just been skipped for want of an issue
C10_Witness ==
    /\ log # <<>>
    /\ LastEvent.op = "resolve"
    /\ LastEvent.outcome \in {"rejected", "no_name", "auto_create_off"}
    /\ stats.skipped_entries > 0

\* The title passes the rules of _should_create_issue
Eligible(title) ==
    /\ Len(Strip(title)) >= MIN_DESCRIPTION_LENGTH
    /\ \A i \in 1..Len(SKIP_GENERIC_TERMS) :
           ~Contains(Lower(title), Lower(SKIP_GENERIC_TERMS[i]))

\* The step calls create_issue
CreatesIssue ==
    \E i \in (Len(calls) + 1)..Len(calls') : calls'[i].op = "create_issue"

\* C11: create_issue is never called with a title whose trimmed length is
\* below MIN_DESCRIPTION_LENGTH or which contains a skip term, whatever the
\* case; nor when auto-create is off, nor when the lookup has found an issue
\* for the group.
C11_CreationEligibility ==
    [][CreatesIssue
       => /\ pc = "resolve"
          /\ Config.AUTO_CREATE_ISSUES
          /\ \/ ~Truthy(entries_by_ticket[gi].key[1])
             \/ find_issue_by_ticket_id(issues, entries_by_ticket[gi].key[1]) = {NoIssue}
          /\ Len(issues') = Len(issues) + 1
          /\ issues'[Len(issues')].title = entries_by_ticket[gi].key[2]
          /\ Eligible(issues'[Len(issues')].title)]_vars

\* create_issue has been called in a run that also met a title it rejects
C11_Witness ==
    /\ "create_issue" \in OpsCalled
    /\ \E g \in 1..Len(entries_by_ticket) : ~Eligible(entries_by_ticket[g].key[2])

\* The step is the post-processing of a group in which a call fails
PostProcessingFails == pc = "post" /\ faults' > faults

\* C12: a failure of get_issue_time_stats, set_time_estimate or the summary
\* add_note_to_issue after the entries of a group were handled changes none
\* of errors, synced_entries and skipped_entries, and the loop goes on with
\* the next group, if there is one.
C12_BestEffortPostProcessing ==
    [][PostProcessingFails
       => /\ stats'.errors = stats.errors
          /\ stats'.synced_entries = stats.synced_entries
          /\ stats'.skipped_entries = stats.skipped_entries
          /\ IF gi < Len(entries_by_ticket)
             THEN pc' = "resolve" /\ gi' = gi + 1
             ELSE pc' = "finish"]_vars

\* After the post-processing of a group failed, the next group was resolved
C12_Witness ==
    \E i \in 1..Len(log), j \in 1..Len(log) :
        /\ i < j
        /\ log[i].op = "post" /\ log[i].outcome = "failed"
        /\ log[j].op = "resolve" /\ log[j].group = log[i].group + 1

\* The settings Config.validate is to refuse: a missing token, workspace or
\* project id, a project id that is not numeric, SYNC_DAYS_BACK <= 0,
\* MINIMUM_DURATION < 0, a rounding granularity outside {1, 5, 10, 15, 30}
InvalidSettings ==
    \/ cli.env.TOGGL_API_TOKEN \in {None, <<>>}
    \/ cli.env.GITLAB_TOKEN \in {None, <<>>}
    \/ cli.env.TOGGL_WORKSPACE_ID \in {None, <<>>}
    \/ cli.env.GITLAB_PROJECT_ID \in {None, <<>>}
    \/ \E i \in 1..Len(cli.env.GITLAB_PROJECT_ID) :
           cli.env.GITLAB_PROJECT_ID[i] \notin IsDigit
    \/ cli.env.SYNC_DAYS_BACK <= 0
    \/ Config.MINIMUM_DURATION < 0
    \/ Config.ROUND_TIME_TO_MINUTES \notin {1, 5, 10, 15, 30}

\* C13: in the sync command, when Config.validate fails or test_connections
\* returns false, no entry is fetched, no group is processed, no call on the
\* tracker's issues is made, and the command ends with a non-zero status.
C13_FatalErrorsPrecedeSync ==
    (/\ cli.pc \notin {"off", "start"}
     /\ InvalidSettings \/ cli.connections = "failed")
    => /\ cli.pc = "exited" /\ cli.exit_status # 0
       /\ run = 0 /\ calls = <<>> /\ log = <<>>
       /\ processed_entries = <<>> /\ entries_by_ticket = <<>>
       /\ tracker = <<InitialIssues, <<>>, <<>>>>

\* The command has ended because test_connections returned false
C13_Witness == cli.pc = "exited" /\ cli.connections = "failed"

\* extract_ticket_info was applied to a description
Parsed == fn_arg.applied /\ fn_res.applied

\* What a matching rule yields: the captured tag and the trimmed trailing
\* text or, when that is empty, the description
ProducedBy(m, description) ==
    [ticket_id |-> m.group1,
     ticket_name |-> IF Strip(m.group2) = <<>> THEN description ELSE Strip(m.group2)]

\* The rules among the matches ms that match, by index
MatchingRules(ms) == {i \in 1..Len(ms) : ms[i].matched}

\* The result of the lowest-indexed matching rule or, when none matches,
\* no ticket id and the description as the name
LowestRuleResult(ms, description) ==
    IF MatchingRules(ms) = {}
    THEN [ticket_id |-> None, ticket_name |-> description]
    ELSE ProducedBy(ms[CHOOSE i \in 1..Len(ms) :
                           ms[i].matched /\ \A j \in 1..(i - 1) : ~ms[j].matched],
                    description)

FirstRuleResult ==
    LowestRuleResult(patterns(Strip(fn_arg.description)), fn_arg.description)

\* Two of the matches ms yield different results
RulesDisagree(ms, description) ==
    \E i, j \in MatchingRules(ms) :
        i < j /\ ProducedBy(ms[i], description) # ProducedBy(ms[j], description)

\* C14 (as stated): for every description, extract_ticket_info returns what
\* the lowest-indexed matching rule of the 9-rule list yields; when no rule
\* matches it returns no ticket id and the original description as the name.
C14_FirstMatchForEveryDescription ==
    Parsed => fn_res.value = FirstRuleResult

\* C14 (amended): the same for every non-empty description; for the empty
\* description both ticket_id and ticket_name are None.
C14_FirstMatchPrecedence ==
    Parsed => fn_res.value =
                  IF fn_arg.description = <<>>
                  THEN [ticket_id |-> None, ticket_name |-> None]
                  ELSE FirstRuleResult

\* A description matched by two rules that yield different results was parsed
C14_Witness ==
    /\ Parsed
    /\ RulesDisagree(patterns(Strip(fn_arg.description)), fn_arg.description)

\* A string that is not empty (and not None)
NonEmptyString(s) == s # None /\ s # <<>>

\* Some rule matches, and the first one that does captures no trailing text
EmptyTrailingText(ms) ==
    /\ MatchingRules(ms) # {}
    /\ \A i \in MatchingRules(ms) :
           (\A j \in MatchingRules(ms) : i <= j) => Strip(ms[i].group2) = <<>>

\* C15 (as stated): for every description, the empty one included, the
\* ticket_name extract_ticket_info returns is a non-empty string; when a rule
\* matches with empty trailing text it is the original description.
C15_NameNeverEmpty ==
    Parsed
    => /\ NonEmptyString(fn_res.value.ticket_name)
       /\ EmptyTrailingText(patterns(Strip(fn_arg.description)))
          => fn_res.value.ticket_name = fn_arg.description

\* C15 (amended): the same for every non-empty description; for the empty
\* description the ticket_name is None.
C15_NameEmptyOnlyForEmptyDescription ==
    Parsed
    => /\ IF fn_arg.description = <<>>
          THEN fn_res.value.ticket_name = None
          ELSE NonEmptyString(fn_res.value.ticket_name)
       /\ EmptyTrailingText(patterns(Strip(fn_arg.description)))
          => fn_res.value.ticket_name = fn_arg.description

\* A tag without trailing text, with a blank before it, was parsed
C15_Witness ==
    /\ Parsed
    /\ EmptyTrailingText(patterns(Strip(fn_arg.description)))
    /\ Strip(fn_arg.description) # fn_arg.description

\* process_time_entries was applied to a list of raw entries
Processed == fn_arg.applied /\ fn_res.applied

\* The ids of a list of entries, in its order
IdsOf(entries) == [i \in 1..Len(entries) |-> entries[i].id]

\* The raw entry passes the filters of the normalizer
PassesNormalizer(entry, minimum_duration, exclude_weekends) ==
    /\ entry.duration > 0
    /\ entry.duration >= minimum_duration
    /\ exclude_weekends => (~entry.start.valid \/ weekday(entry.start) \in 0..4)

\* C16: the entries process_time_entries returns are exactly the raw entries
\* with duration > 0, duration >= minDuration and, when weekends are
\* excluded, a start on Monday to Friday or a start that cannot be parsed;
\* they come in input order, none twice.
C16_NormalizerFiltering ==
    Processed
    => IdsOf(fn_res.value) =
           IdsOf(SelectSeq(fn_arg.time_entries, LAMBDA entry :
                     PassesNormalizer(entry, fn_arg.minimum_duration,
                                      fn_arg.exclude_weekends)))

\* Weekends excluded: an entry with an unreadable start is kept, between a
\* Saturday entry and an empty entry that are dropped
C16_Witness ==
    /\ Processed
    /\ fn_arg.exclude_weekends
    /\ Len(fn_arg.time_entries) >= 2
    /\ \E i \in 1..Len(fn_arg.time_entries) :
           /\ ~fn_arg.time_entries[i].start.valid
           /\ \E k \in 1..Len(fn_res.value) : fn_res.value[k].id = i
    /\ \E i \in 1..Len(fn_arg.time_entries) :
           /\ fn_arg.time_entries[i].duration = 0 \/ fn_arg.time_entries[i].start = Saturday
           /\ \A k \in 1..Len(fn_res.value) : fn_res.value[k].id # i

\* The step calls set_time_estimate
SetsEstimate ==
    \E i \in (Len(calls) + 1)..Len(calls') : calls'[i].op = "set_time_estimate"

\* C17: set_time_estimate is called only after a group was logged, with time
\* estimates enabled, a total logged time > 0 and no estimate on the issue;
\* no step changes the estimate an issue carries.
C17_EstimateNeverOverwritten ==
    [][/\ SetsEstimate
          => /\ pc = "post"
             /\ Config.ADD_TIME_ESTIMATES
             /\ total_logged_time > 0
             /\ issues[IssueIndex(issues, gitlab_issue)].time_estimate = 0
       /\ \A i \in 1..Len(issues) :
              issues[i].time_estimate # 0
              => issues'[i].time_estimate = issues[i].time_estimate]_vars

\* The entries of group g logged so far in this run
LoggedInGroup(g) ==
    {i \in 1..Len(log) :
         log[i].op = "entry" /\ log[i].outcome = "logged" /\ log[i].group = g}

\* C18: in a live run the step after the entries of a group appends one
\* summary note to the issue when more than one entry of the group was logged
\* in this run, and no note when zero or one entry was logged.
C18_SummaryNoteWhenSeveralLogged ==
    [][(pc = "post" /\ ~dry_run)
       => IF Cardinality(LoggedInGroup(gi)) > 1
          THEN /\ Len(notes') = Len(notes) + 1
               /\ notes'[Len(notes')].iid = gitlab_issue
          ELSE notes' = notes]_vars

\* In this step a call fails that fetches the Toggl entries, looks an issue up,
\* reads the markers, creates an issue or adds time
ListedCallFails ==
    \/ pc \in {"idle", "done", "resolve", "markers"} /\ faults' > faults
    \/ pc = "entries" /\ log'[Len(log')].outcome = "failed"

\* C19: a step in which one of these calls fails adds to the errors counter
\* of the run.
C19_FailedCallsCountAsErrors ==
    [][ListedCallFails
       => stats'.errors > (IF pc \in {"idle", "done"} THEN 0 ELSE stats.errors)]_vars

\* The step submits a time record
SubmitsTimeRecord == pc = "entries" /\ Len(timelogs') = Len(timelogs) + 1

\* C20: with duplicate prevention enabled, the summary of every time record
\* submitted holds the marker [TogglID:<id>] of the entry it logs.
C20_MarkerOnEveryRecord ==
    [][(SubmitsTimeRecord /\ Config.PREVENT_DUPLICATES)
       => Contains(timelogs'[Len(timelogs')].summary,
                   STR_TogglID \o IntToStr(entries_by_ticket[gi].entries[ei].id)
                       \o <<"]">>)]_vars

\* ------------------------------ Rounding law ----------------------------
\* |a - b|
Distance(a, b) == IF a >= b THEN a - b ELSE b - a

\* The multiples of unit that are as near to d as a multiple can be
NearestMultiples(d, unit) ==
    {m \in {k * unit : k \in 0..(d \div unit + 1)} :
        \A k \in 0..(d \div unit + 1) : Distance(m, d) <= Distance(k * unit, d)}

\* round_time has been applied to a positive duration
RoundedPositive == fn_res.applied /\ fn_arg.duration_seconds > 0

\* C21: for a duration d > 0 and roundTo in {1, 5, 10, 15, 30}, round_time
\* returns a strictly positive multiple of roundTo*60 that is a nearest
\* multiple to d, and exactly roundTo*60 when 0 is a nearest multiple; the
\* processed entry carries the rounded value as duration and d as
\* original_duration.
C21_RoundingLaw ==
    RoundedPositive =>
        /\ fn_res.value > 0
        /\ fn_res.value % (fn_arg.round_to_minutes * 60) = 0
        /\ IF 0 \in NearestMultiples(fn_arg.duration_seconds, fn_arg.round_to_minutes * 60)
           THEN fn_res.value = fn_arg.round_to_minutes * 60
           ELSE fn_res.value \in NearestMultiples(fn_arg.duration_seconds,
                                                  fn_arg.round_to_minutes * 60)
        /\ processed_entry(RawEntry(1, DESC_42_fix, fn_arg.duration_seconds, FALSE,
                                    Friday, <<>>),
                           fn_arg.round_to_minutes).original_duration
               = fn_arg.duration_seconds
        /\ processed_entry(RawEntry(1, DESC_42_fix, fn_arg.duration_seconds, FALSE,
                                    Friday, <<>>),
                           fn_arg.round_to_minutes).duration = fn_res.value

\* round_time applied to 20 s and 1 min, whose nearest multiple is 0, and the
\* result is one minute
C21_Witness ==
    /\ RoundedPositive
    /\ fn_arg.duration_seconds = 20 /\ fn_arg.round_to_minutes = 1
    /\ fn_res.value = 60

\* ------------------------------- Grouping -------------------------------
\* The places <<group, index>> of entries_by_ticket
GroupSlots ==
    UNION {{<<g, j>> : j \in 1..Len(entries_by_ticket[g].entries)} :
               g \in 1..Len(entries_by_ticket)}

\* The entry at a place of entries_by_ticket
EntryAt(slot) == entries_by_ticket[slot[1]].entries[slot[2]]

\* Where the processed entries hold the entry (one index: Toggl ids are unique)
InputIndex(entry) == CHOOSE i \in 1..Len(processed_entries) : processed_entries[i] = entry

\* The steps of the run that belong to a group
GroupSteps == {i \in 1..Len(log) : log[i].group > 0}

\* C22: every processed entry is in exactly one group, the one whose key is
\* its own (ticket_id, ticket_name); no two groups share a key; entries inside
\* a group keep their input order; groups are ordered, and reconciled, by the
\* first occurrence of their key in the input.
C22_GroupingIsOrderedPartition ==
    /\ \A i \in 1..Len(processed_entries) :
           Cardinality({slot \in GroupSlots : EntryAt(slot) = processed_entries[i]}) = 1
    /\ Cardinality(GroupSlots) = Len(processed_entries)
    /\ \A slot \in GroupSlots :
           entries_by_ticket[slot[1]].key
               = <<EntryAt(slot).ticket_id, EntryAt(slot).ticket_name>>
    /\ \A g \in 1..Len(entries_by_ticket), h \in 1..Len(entries_by_ticket) :
           g < h => /\ entries_by_ticket[g].key # entries_by_ticket[h].key
                    /\ InputIndex(EntryAt(<<g, 1>>)) < InputIndex(EntryAt(<<h, 1>>))
    /\ \A s \in GroupSlots, t \in GroupSlots :
           (s[1] = t[1] /\ s[2] < t[2]) => InputIndex(EntryAt(s)) < InputIndex(EntryAt(t))
    /\ \A i \in GroupSteps, j \in GroupSteps : i < j => log[i].group <= log[j].group

\* A finished run over two entries of the same ticket id and different names:
\* two groups, both reconciled
C22_Witness ==
    /\ Finished
    /\ Len(entries_by_ticket) = 2
    /\ entries_by_ticket[1].key[1] = entries_by_ticket[2].key[1]
    /\ {log[i].group : i \in GroupSteps} = {1, 2}

\* --------------------------- Group sequencing ---------------------------
\* The collaborator calls of the run made for a group
GroupCalls == {i \in 1..Len(calls) : calls[i].group > 0}

\* The calls of _sync_entries_to_issue after its loop: the estimate update
\* and the summary note
IsPostCall(call) ==
    \/ call.op \in {"get_issue_time_stats", "set_time_estimate"}
    \/ call.op = "add_note_to_issue" /\ call.entry = 0

\* C23: no call for a later group is made before a call of an earlier group;
\* within a group the read of the markers precedes every add_time_spent, and
\* the estimate update and the summary note follow every add_time_spent.
C23_GroupSequencing ==
    \A i \in GroupCalls, j \in GroupCalls :
        /\ i < j => calls[i].group <= calls[j].group
        /\ (/\ calls[i].group = calls[j].group
            /\ calls[i].op = "get_time_tracking_entries"
            /\ calls[j].op = "add_time_spent") => i < j
        /\ (/\ calls[i].group = calls[j].group
            /\ calls[i].op = "add_time_spent"
            /\ IsPostCall(calls[j])) => i < j

\* A run with two groups: time added and the estimate set for the first, then
\* the markers read and time added for the second
C23_Witness ==
    \E i \in GroupCalls, j \in GroupCalls, k \in GroupCalls, l \in GroupCalls :
        /\ i < j /\ j < k /\ k < l
        /\ calls[i].op = "add_time_spent" /\ calls[i].group = 1
        /\ calls[j].op = "set_time_estimate" /\ calls[j].group = 1
        /\ calls[k].op = "get_time_tracking_entries" /\ calls[k].group = 2
        /\ calls[l].op = "add_time_spent" /\ calls[l].group = 2

\* -------------------------- Counter conservation ------------------------
\* C24: at the end of every run, live or dry, whatever calls failed,
\* processed_entries = synced_entries + skipped_entries + errors.
C24_CounterConservation ==
    Finished =>
        stats.processed_entries
            = stats.synced_entries + stats.skipped_entries + stats.errors


\* ------------------------ Issue creation across runs --------------------
\* The tracker holds an issue that create_issue opened for the group key: its
\* title is the ticket name and its description is the text of
\* _sync_ticket_entries for the ticket id up to the duration (the text for 0
\* seconds ends with the two characters "0m")
AutoCreatedFor(key) ==
    \E i \in 1..Len(issues) :
        /\ issues[i].title = key[2]
        /\ SubSeq(issues[i].description, 1,
                  Len(created_issue_description(key[1], 0)) - 2)
               = SubSeq(created_issue_description(key[1], 0), 1,
                        Len(created_issue_description(key[1], 0)) - 2)

\* C25: once a live run has auto-created an issue for a group key, no later
\* run calls create_issue for that key, with or without a ticket id.
C25_NoDuplicateIssue ==
    [][CreatesIssue => ~AutoCreatedFor(entries_by_ticket[gi].key)]_vars

\* The tracker holds an issue whose number is the ticket id or whose title or
\* description contains it
HoldsIssueFor(ticket_id) ==
    \/ IsDigitStr(ticket_id) /\ StrToInt(ticket_id) \in IssueIids(issues)
    \/ \E i \in 1..Len(issues) :
           \/ Contains(Lower(issues[i].title), Lower(ticket_id))
           \/ Contains(Lower(issues[i].description), Lower(ticket_id))

\* C26: create_issue is called for a group with a ticket id only if the
\* tracker holds no issue whose number equals the id and none whose title or
\* description contains it; a failed lookup does not lead to a creation.
C26_CreateOnlyWhenAbsent ==
    [][(CreatesIssue /\ Truthy(entries_by_ticket[gi].key[1]))
       => ~HoldsIssueFor(entries_by_ticket[gi].key[1])]_vars

\* ----------------------- One time record per entry ----------------------
\* The time records the issue holds for the processed entry: those
\* add_time_spent posts for it
RecordsOf(entry, iid) ==
    {i \in 1..Len(timelogs) :
        timelogs[i] = time_record(iid, entry.duration, entry.start,
                                  entry_description(entry, Config.PREVENT_DUPLICATES))}

\* C27: with duplicate prevention enabled, after any sequence of live runs
\* and whatever marker lookups or tracking-note writes failed, no issue
\* holds more than one time record for the same Toggl entry.
C27_OneRecordPerEntry ==
    Config.PREVENT_DUPLICATES =>
        \A i \in 1..Len(processed_entries), iid \in IssueIids(issues) :
            Cardinality(RecordsOf(processed_entries[i], iid)) <= 1

\* ------------------------------ Reported time ---------------------------
\* The entries of the run counted in synced_entries: logged, or in a dry run
\* reported as would-be logged
CountedSynced ==
    {log[i].entry : i \in {k \in 1..Len(log) :
        log[k].op = "entry" /\ log[k].outcome \in {"logged", "would_log"}}}

\* The processed entries with their id in ids
WithIds(entries, ids) == SelectSeq(entries, LAMBDA entry : entry.id \in ids)

\* C28: at the end of every run total_time_synced is the sum of the durations
\* of the entries counted in synced_entries, and billable_time_synced the
\* billable part of that sum; it is 0 whenever synced_entries = 0.
C28_ReportedTimeMatchesLogged ==
    (Finished /\ LastEvent.op = "finish") =>
        /\ stats.total_time_synced
               = SumDuration(WithIds(processed_entries, CountedSynced))
        /\ stats.billable_time_synced
               = SumDuration(SelectSeq(WithIds(processed_entries, CountedSynced),
                                       LAMBDA entry : entry.billable))
        /\ stats.synced_entries = 0 => stats.total_time_synced = 0

\* The entries of the run passed to add_time_spent with success
LoggedIds ==
    {log[i].entry : i \in {k \in 1..Len(log) :
        log[k].op = "entry" /\ log[k].outcome = "logged"}}

\* C29: every entry process_time_entries returns has a rounded duration of
\* at least minDuration; so, with billable-only off, every entry logged to an
\* issue passes _should_sync_entry and is included in total_time_synced.
C29_ProcessedEntriesStayEligible ==
    /\ \A i \in 1..Len(processed_entries) :
           processed_entries[i].duration >= Config.MINIMUM_DURATION
    /\ (Finished /\ LastEvent.op = "finish" /\ ~Config.SYNC_ONLY_BILLABLE) =>
           /\ \A i \in 1..Len(processed_entries) :
                  processed_entries[i].id \in LoggedIds =>
                      _should_sync_entry(processed_entries[i], Config.MINIMUM_DURATION,
                                         Config.SYNC_ONLY_BILLABLE)
           /\ stats.total_time_synced
                  >= SumDuration(WithIds(processed_entries, LoggedIds))

\* ------------------------- Cleanup look-back window ---------------------
\* The note is an "added ... time spent" note created on or after the date
\* days_back days before today
IsRecentTimeNote(note, today, days_back) ==
    /\ Contains(note.body, <<"a", "d", "d", "e", "d">>)
    /\ Contains(note.body, <<"t", "i", "m", "e", " ", "s", "p", "e", "n", "t">>)
    /\ DaysFromCivil(note.created_at.y, note.created_at.m, note.created_at.d)
           >= DaysFromCivil(today.y, today.m, today.d) - days_back

\* C30: for every current date and every days_back >= 0,
\* get_recent_time_notes returns exactly the "added ... time spent" notes of
\* the issue created on or after the date days_back days before today, and
\* not an empty list when such notes exist.
C30_LookBackWindow ==
    fn_res.applied =>
        fn_res.value = SelectSeq(fn_arg.notes, LAMBDA note :
                           IsRecentTimeNote(note, fn_arg.today, fn_arg.days_back))
=============================================================================
